---- MODULE Spec2Model ----
(***************************************************************************)
(* Model of three components of the interface:                             *)
(* - PresetRanges, the liquidity-range presets and the risk score          *)
(*   (src/src/pages/PoolsPage/v3/SupplyLiquidityV3/components/PresetRanges), *)
(*   specification Spec;                                                   *)
(* - AddLiquidityButton, the displayed price range and its inversion, and   *)
(*   the submission of the transaction (src/unnamed/part_001),             *)
(*   specifications SpecAdd and SpecAddFlow;                               *)
(* - Swap, the swap button and the confirmation flow                       *)
(*   (src/components/Swap/Swap.tsx), specifications SpecSwapButton and     *)
(*   SpecSwap.                                                             *)
(* Each specification moves one component and holds the others still.      *)
(*                                                                         *)
(* JavaScript numbers are modelled as decimal fixed-point values with      *)
(* Digits fractional digits, rounded to nearest after every operation,     *)
(* together with the three IEEE special values +Infinity, -Infinity and    *)
(* NaN.  JavaScript strings are modelled as sequences of one-character     *)
(* strings, so that ToNumber, Number.prototype.toString, split and         *)
(* parseFloat are computed rather than assumed.                            *)
(***************************************************************************)
EXTENDS Integers, Sequences, FiniteSets, Bags, TLC

(* Number of fractional decimal digits carried by a model number. *)
Digits == 4

Scale == 10 ^ Digits

(* JavaScript undefined.  Every modelled JavaScript value is a record with a
   kind field k: "undefined", "str", "arr", one of the number kinds, or the
   kind of an object ("bool", "token", "price", "trade", ...). *)
Undefined == [k |-> "undefined"]

-----------------------------------------------------------------------------
(* Numbers *)

Fin(v) == [k |-> "fin", v |-> v]

PosInf == [k |-> "inf", v |-> 1]

NegInf == [k |-> "inf", v |-> -1]

NaN == [k |-> "nan", v |-> 0]

IsFin(a) == a.k = "fin"

IsNaN(a) == a.k = "nan"

Sgn(n) == IF n > 0 THEN 1 ELSE IF n < 0 THEN -1 ELSE 0

AbsInt(n) == IF n < 0 THEN -n ELSE n

(* The sign of a number that is not NaN. *)
SignOf(a) == IF IsFin(a) THEN Sgn(a.v) ELSE a.v

(* An integer literal and a literal with three decimals, e.g. 0.984. *)
IntLit(n) == Fin(n * Scale)

Lit(whole, thousandths) == Fin(whole * Scale + (thousandths * Scale) \div 1000)

FNeg(a) == IF IsNaN(a) THEN NaN ELSE [k |-> a.k, v |-> -a.v]

FAdd(a, b) ==
  IF IsNaN(a) \/ IsNaN(b) THEN NaN
  ELSE IF IsFin(a) /\ IsFin(b) THEN Fin(a.v + b.v)
  ELSE IF IsFin(a) THEN b
  ELSE IF IsFin(b) THEN a
  ELSE IF a.v = b.v THEN a ELSE NaN

FSub(a, b) == FAdd(a, FNeg(b))

FAbs(a) == IF IsNaN(a) THEN NaN ELSE [k |-> a.k, v |-> AbsInt(a.v)]

(* round(m * n / Scale) for naturals m, n, without forming m * n whole *)
MulMag(m, n) ==
  LET mh == m \div Scale
      ml == m % Scale
      nh == n \div Scale
      nl == n % Scale
  IN  mh * nh * Scale + mh * nl + ml * nh + (2 * ml * nl + Scale) \div (2 * Scale)

FMul(a, b) ==
  IF IsNaN(a) \/ IsNaN(b) THEN NaN
  ELSE IF IsFin(a) /\ IsFin(b)
       THEN Fin(Sgn(a.v) * Sgn(b.v) * MulMag(AbsInt(a.v), AbsInt(b.v)))
  ELSE IF SignOf(a) = 0 \/ SignOf(b) = 0 THEN NaN
  ELSE [k |-> "inf", v |-> SignOf(a) * SignOf(b)]

(* The first n fractional digits of r / d (r < d) as an integer, and the
   remainder left after them. *)
RECURSIVE FracDigits(_, _, _)
FracDigits(r, d, n) ==
  IF n = 0 THEN <<0, r>>
  ELSE LET rest == FracDigits(r, d, n - 1)
           r10  == rest[2] * 10
       IN  <<rest[1] * 10 + r10 \div d, r10 % d>>

(* round(m * Scale / d) for a natural m and a positive d, by long division *)
DivMag(m, d) ==
  LET fd == FracDigits(m % d, d, Digits)
  IN  (m \div d) * Scale + fd[1] + (IF 2 * fd[2] >= d THEN 1 ELSE 0)

FDiv(a, b) ==
  IF IsNaN(a) \/ IsNaN(b) THEN NaN
  ELSE IF IsFin(a) /\ IsFin(b)
       THEN IF b.v = 0
            THEN IF a.v = 0 THEN NaN ELSE [k |-> "inf", v |-> Sgn(a.v)]
            ELSE Fin(Sgn(a.v) * Sgn(b.v) * DivMag(AbsInt(a.v), AbsInt(b.v)))
  ELSE IF IsFin(a) THEN Fin(0)
  ELSE IF IsFin(b) THEN [k |-> "inf", v |-> a.v * (IF b.v < 0 THEN -1 ELSE 1)]
  ELSE NaN

(* a < b and a > b: false as soon as one side is NaN *)
FLt(a, b) ==
  IF IsNaN(a) \/ IsNaN(b) THEN FALSE
  ELSE IF IsFin(a) /\ IsFin(b) THEN a.v < b.v
  ELSE IF IsFin(a) THEN b.v > 0
  ELSE IF IsFin(b) THEN a.v < 0
  ELSE a.v < b.v

FGt(a, b) == FLt(b, a)

FLe(a, b) == FLt(a, b) \/ (~IsNaN(a) /\ a = b)

-----------------------------------------------------------------------------
(* Strings and arrays *)

Str(chars) == [k |-> "str", s |-> chars]

Arr(elems) == [k |-> "arr", a |-> elems]

DigitChars == <<"0", "1", "2", "3", "4", "5", "6", "7", "8", "9">>

IsDigit(c) == c \in {"0", "1", "2", "3", "4", "5", "6", "7", "8", "9"}

DigitVal(c) ==
  CASE c = "0" -> 0 [] c = "1" -> 1 [] c = "2" -> 2 [] c = "3" -> 3 [] c = "4" -> 4
    [] c = "5" -> 5 [] c = "6" -> 6 [] c = "7" -> 7 [] c = "8" -> 8 [] c = "9" -> 9

InfinityChars == <<"I", "n", "f", "i", "n", "i", "t", "y">>

NaNChars == <<"N", "a", "N">>

UndefinedChars == <<"u", "n", "d", "e", "f", "i", "n", "e", "d">>

(* The value of a sequence of digit characters read as a natural. *)
RECURSIVE DigitsValue(_)
DigitsValue(ds) ==
  IF ds = <<>> THEN 0
  ELSE DigitsValue(SubSeq(ds, 1, Len(ds) - 1)) * 10 + DigitVal(ds[Len(ds)])

(* The digits after a decimal point as a multiple of 1 / Scale, rounded. *)
FracValue(ds) ==
  IF Len(ds) <= Digits
  THEN DigitsValue(ds) * 10 ^ (Digits - Len(ds))
  ELSE DigitsValue(SubSeq(ds, 1, Digits))
         + (IF DigitVal(ds[Digits + 1]) >= 5 THEN 1 ELSE 0)

(* The length of the longest prefix of cs made of digits only. *)
RECURSIVE DigitRun(_)
DigitRun(cs) ==
  IF cs = <<>> \/ ~IsDigit(cs[1]) THEN 0 ELSE 1 + DigitRun(Tail(cs))

(* The longest prefix of cs that is a decimal literal
   [-] digits [ . digits ], as <<negative, integer digits, fraction digits>>. *)
DecimalPrefix(cs) ==
  LET neg  == cs /= <<>> /\ cs[1] = "-"
      body == IF neg THEN Tail(cs) ELSE cs
      n    == DigitRun(body)
      rest == SubSeq(body, n + 1, Len(body))
      m    == IF rest /= <<>> /\ rest[1] = "." THEN DigitRun(Tail(rest)) ELSE 0
      dot  == IF rest /= <<>> /\ rest[1] = "." THEN 1 ELSE 0
  IN  [neg |-> neg, int |-> SubSeq(body, 1, n), frac |-> SubSeq(rest, 2, m + 1),
       len |-> (IF neg THEN 1 ELSE 0) + n + dot + m]

DecimalValue(p) ==
  Fin((IF p.neg THEN -1 ELSE 1) * (DigitsValue(p.int) * Scale + FracValue(p.frac)))

(* Unary plus on a string: the whole string must be a numeric literal;
   +undefined is NaN.  Exponents, surrounding white space and the negative
   zero of "-0" are not modelled; no string of PriceSamples uses them. *)
ToNumber(str) ==
  LET cs == str.s
      p  == DecimalPrefix(cs)
  IN  IF str = Undefined THEN NaN
      ELSE IF cs = <<>> THEN Fin(0)
      ELSE IF cs = InfinityChars THEN PosInf
      ELSE IF p.len = Len(cs) /\ Len(p.int) + Len(p.frac) > 0 THEN DecimalValue(p)
      ELSE NaN

HasPrefix(cs, pre) == Len(cs) >= Len(pre) /\ SubSeq(cs, 1, Len(pre)) = pre

(* parseFloat: the longest prefix that is a numeric literal, NaN if none. *)
parseFloat(str) ==
  LET cs == str.s
      p  == DecimalPrefix(cs)
  IN  IF HasPrefix(cs, InfinityChars) THEN PosInf
      ELSE IF Len(p.int) + Len(p.frac) > 0 THEN DecimalValue(p)
      ELSE NaN

(* The decimal digits of a natural, most significant first. *)
RECURSIVE NatChars(_)
NatChars(n) ==
  IF n < 10 THEN <<DigitChars[n + 1]>>
  ELSE Append(NatChars(n \div 10), DigitChars[(n % 10) + 1])

(* The n digits of f (f < 10 ^ n), zero padded on the left. *)
RECURSIVE PadChars(_, _)
PadChars(f, n) ==
  IF n = 0 THEN <<>>
  ELSE Append(PadChars(f \div 10, n - 1), DigitChars[(f % 10) + 1])

RECURSIVE StripZeros(_)
StripZeros(cs) ==
  IF cs /= <<>> /\ cs[Len(cs)] = "0"
  THEN StripZeros(SubSeq(cs, 1, Len(cs) - 1))
  ELSE cs

(* Number.prototype.toString *)
toString(a) ==
  IF IsNaN(a) THEN Str(NaNChars)
  ELSE IF ~IsFin(a)
       THEN Str((IF a.v < 0 THEN <<"-">> ELSE <<>>) \o InfinityChars)
  ELSE LET m    == AbsInt(a.v)
           frac == StripZeros(PadChars(m % Scale, Digits))
       IN  Str((IF a.v < 0 THEN <<"-">> ELSE <<>>)
               \o NatChars(m \div Scale)
               \o (IF frac = <<>> THEN <<>> ELSE <<".">> \o frac))

(* String.prototype.split on a one-character separator *)
RECURSIVE SplitChars(_, _)
SplitChars(cs, sep) ==
  IF \A i \in 1..Len(cs) : cs[i] /= sep THEN <<Str(cs)>>
  ELSE LET i == CHOOSE j \in 1..Len(cs) :
                  cs[j] = sep /\ \A h \in 1..(j - 1) : cs[h] /= sep
       IN  <<Str(SubSeq(cs, 1, i - 1))>> \o SplitChars(SubSeq(cs, i + 1, Len(cs)), sep)

split(str, sep) == Arr(SplitChars(str.s, sep))

(* arr[i] with a zero-based index: undefined past the end *)
At(arr, i) == IF i + 1 <= Len(arr.a) THEN arr.a[i + 1] ELSE Undefined

(* 'literal' + x: an undefined operand is converted to "undefined" *)
Concat(str, x) ==
  Str(str.s \o (IF x = Undefined THEN UndefinedChars ELSE x.s))

(* !x for a string-or-undefined value *)
Not(x) == x = Undefined \/ (x.k = "str" /\ x.s = <<>>)

(* a === b on numbers *)
StrictEq(a, b) == ~IsNaN(a) /\ ~IsNaN(b) /\ a = b

-----------------------------------------------------------------------------
(* The PresetRanges component *)

(* enum PresetProfits *)
VERY_LOW == 0

LOW == 1

MEDIUM == 2

HIGH == 3

(* The translation function of useTranslation, left uninterpreted. *)
t(key) == <<"t", key>>

(* derivePresets with the Safe and Normal presets in the other order *)
derivePresets_Reordered(stable) ==
  IF stable
  THEN << [type |-> "STABLE", title |-> t("stablecoins"),
           min |-> Lit(0, 984), max |-> Lit(1, 16),
           risk |-> VERY_LOW, profit |-> HIGH] >>
  ELSE << [type |-> "FULL", title |-> t("fullRange"),
           min |-> IntLit(0), max |-> PosInf,
           risk |-> VERY_LOW, profit |-> VERY_LOW],
          [type |-> "NORMAL", title |-> t("common"),
           min |-> Lit(0, 900), max |-> Lit(1, 200),
           risk |-> MEDIUM, profit |-> MEDIUM],
          [type |-> "SAFE", title |-> t("safe"),
           min |-> Lit(0, 800), max |-> Lit(1, 400),
           risk |-> LOW, profit |-> LOW],
          [type |-> "RISK", title |-> t("expert"),
           min |-> Lit(0, 950), max |-> Lit(1, 100),
           risk |-> HIGH, profit |-> HIGH] >>

(* derivePresets that adds the Stable preset in front instead of returning
   it alone *)
derivePresets_NoEarlyReturn(stable) ==
  (IF stable
   THEN << [type |-> "STABLE", title |-> t("stablecoins"),
            min |-> Lit(0, 984), max |-> Lit(1, 16),
            risk |-> VERY_LOW, profit |-> HIGH] >>
   ELSE << >>)
  \o << [type |-> "FULL", title |-> t("fullRange"),
          min |-> IntLit(0), max |-> PosInf,
          risk |-> VERY_LOW, profit |-> VERY_LOW],
         [type |-> "SAFE", title |-> t("safe"),
          min |-> Lit(0, 800), max |-> Lit(1, 400),
          risk |-> LOW, profit |-> LOW],
         [type |-> "NORMAL", title |-> t("common"),
          min |-> Lit(0, 900), max |-> Lit(1, 200),
          risk |-> MEDIUM, profit |-> MEDIUM],
         [type |-> "RISK", title |-> t("expert"),
          min |-> Lit(0, 950), max |-> Lit(1, 100),
          risk |-> HIGH, profit |-> HIGH] >>

(* derivePresets with the bounds of the Risk preset exchanged *)
derivePresets_SwappedBounds(stable) ==
  IF stable
  THEN << [type |-> "STABLE", title |-> t("stablecoins"),
           min |-> Lit(0, 984), max |-> Lit(1, 16),
           risk |-> VERY_LOW, profit |-> HIGH] >>
  ELSE << [type |-> "FULL", title |-> t("fullRange"),
           min |-> IntLit(0), max |-> PosInf,
           risk |-> VERY_LOW, profit |-> VERY_LOW],
          [type |-> "SAFE", title |-> t("safe"),
           min |-> Lit(0, 800), max |-> Lit(1, 400),
           risk |-> LOW, profit |-> LOW],
          [type |-> "NORMAL", title |-> t("common"),
           min |-> Lit(0, 900), max |-> Lit(1, 200),
           risk |-> MEDIUM, profit |-> MEDIUM],
          [type |-> "RISK", title |-> t("expert"),
           min |-> Lit(1, 100), max |-> Lit(0, 950),
           risk |-> HIGH, profit |-> HIGH] >>

(* The callback of the ranges memo. *)
derivePresets(stable) ==
  IF stable
  THEN << [type |-> "STABLE", title |-> t("stablecoins"),
           min |-> Lit(0, 984), max |-> Lit(1, 16),
           risk |-> VERY_LOW, profit |-> HIGH] >>
  ELSE << [type |-> "FULL", title |-> t("fullRange"),
           min |-> IntLit(0), max |-> PosInf,
           risk |-> VERY_LOW, profit |-> VERY_LOW],
          [type |-> "SAFE", title |-> t("safe"),
           min |-> Lit(0, 800), max |-> Lit(1, 400),
           risk |-> LOW, profit |-> LOW],
          [type |-> "NORMAL", title |-> t("common"),
           min |-> Lit(0, 900), max |-> Lit(1, 200),
           risk |-> MEDIUM, profit |-> MEDIUM],
          [type |-> "RISK", title |-> t("expert"),
           min |-> Lit(0, 950), max |-> Lit(1, 100),
           risk |-> HIGH, profit |-> HIGH] >>

(* const upperPercent = 100 - (+price / +priceUpper) * 100 *)
upperPercent(p, pUpper) ==
  FSub(IntLit(100), FMul(FDiv(ToNumber(p), ToNumber(pUpper)), IntLit(100)))

(* lowerPercent without Math.abs *)
lowerPercent_NoAbs(p, pLower) ==
  FSub(IntLit(100), FMul(FDiv(ToNumber(p), ToNumber(pLower)), IntLit(100)))

(* const lowerPercent = Math.abs(100 - (+price / +priceLower) * 100) *)
lowerPercent(p, pLower) ==
  FAbs(FSub(IntLit(100), FMul(FDiv(ToNumber(p), ToNumber(pLower)), IntLit(100))))

(* rangePercent that subtracts whatever the lower bound is *)
rangePercentOf_AlwaysSubtract(pLower, pUpper, p) ==
  FSub(upperPercent(p, pUpper), lowerPercent(p, pLower))

(* const rangePercent = ... ? upperPercent - lowerPercent
                            : upperPercent + lowerPercent *)
rangePercentOf(pLower, pUpper, p) ==
  IF FGt(ToNumber(pLower), ToNumber(p)) /\ FGt(ToNumber(pUpper), IntLit(0))
  THEN FSub(upperPercent(p, pUpper), lowerPercent(p, pLower))
  ELSE FAdd(upperPercent(p, pUpper), lowerPercent(p, pLower))

(* riskBands with the divisor of the [30,60) band taken from its neighbour *)
riskBands_WrongDivisor(rp) ==
  IF FLt(rp, Lit(7, 500)) THEN IntLit(5)
  ELSE IF FLt(rp, IntLit(15))
       THEN FAdd(FDiv(FSub(IntLit(15), rp), Lit(7, 500)), IntLit(4))
  ELSE IF FLt(rp, IntLit(30))
       THEN FAdd(FDiv(FSub(IntLit(30), rp), IntLit(15)), IntLit(3))
  ELSE IF FLt(rp, IntLit(60))
       THEN FAdd(FDiv(FSub(IntLit(60), rp), IntLit(15)), IntLit(2))
  ELSE IF FLt(rp, IntLit(120))
       THEN FAdd(FDiv(FSub(IntLit(120), rp), IntLit(60)), IntLit(1))
  ELSE IntLit(1)

(* riskBands with the slope of the [15,30) band reversed *)
riskBands_Rising(rp) ==
  IF FLt(rp, Lit(7, 500)) THEN IntLit(5)
  ELSE IF FLt(rp, IntLit(15))
       THEN FAdd(FDiv(FSub(IntLit(15), rp), Lit(7, 500)), IntLit(4))
  ELSE IF FLt(rp, IntLit(30))
       THEN FAdd(FDiv(FSub(rp, IntLit(15)), IntLit(15)), IntLit(3))
  ELSE IF FLt(rp, IntLit(60))
       THEN FAdd(FDiv(FSub(IntLit(60), rp), IntLit(30)), IntLit(2))
  ELSE IF FLt(rp, IntLit(120))
       THEN FAdd(FDiv(FSub(IntLit(120), rp), IntLit(60)), IntLit(1))
  ELSE IntLit(1)

(* riskBands without the first branch that clamps narrow ranges to 5 *)
riskBands_NoClamp(rp) ==
  IF FLt(rp, IntLit(15))
  THEN FAdd(FDiv(FSub(IntLit(15), rp), Lit(7, 500)), IntLit(4))
  ELSE IF FLt(rp, IntLit(30))
       THEN FAdd(FDiv(FSub(IntLit(30), rp), IntLit(15)), IntLit(3))
  ELSE IF FLt(rp, IntLit(60))
       THEN FAdd(FDiv(FSub(IntLit(60), rp), IntLit(30)), IntLit(2))
  ELSE IF FLt(rp, IntLit(120))
       THEN FAdd(FDiv(FSub(IntLit(120), rp), IntLit(60)), IntLit(1))
  ELSE IntLit(1)

(* riskBands with the offset of the [15,30) band one tier too low *)
riskBands_WrongOffset(rp) ==
  IF FLt(rp, Lit(7, 500)) THEN IntLit(5)
  ELSE IF FLt(rp, IntLit(15))
       THEN FAdd(FDiv(FSub(IntLit(15), rp), Lit(7, 500)), IntLit(4))
  ELSE IF FLt(rp, IntLit(30))
       THEN FAdd(FDiv(FSub(IntLit(30), rp), IntLit(15)), IntLit(2))
  ELSE IF FLt(rp, IntLit(60))
       THEN FAdd(FDiv(FSub(IntLit(60), rp), IntLit(30)), IntLit(2))
  ELSE IF FLt(rp, IntLit(120))
       THEN FAdd(FDiv(FSub(IntLit(120), rp), IntLit(60)), IntLit(1))
  ELSE IntLit(1)

(* The if / else-if chain that maps rangePercent to the score. *)
riskBands(rp) ==
  IF FLt(rp, Lit(7, 500)) THEN IntLit(5)
  ELSE IF FLt(rp, IntLit(15))
       THEN FAdd(FDiv(FSub(IntLit(15), rp), Lit(7, 500)), IntLit(4))
  ELSE IF FLt(rp, IntLit(30))
       THEN FAdd(FDiv(FSub(IntLit(30), rp), IntLit(15)), IntLit(3))
  ELSE IF FLt(rp, IntLit(60))
       THEN FAdd(FDiv(FSub(IntLit(60), rp), IntLit(30)), IntLit(2))
  ELSE IF FLt(rp, IntLit(120))
       THEN FAdd(FDiv(FSub(IntLit(120), rp), IntLit(60)), IntLit(1))
  ELSE IntLit(1)

(* the early return without the test of price *)
riskInputsAbsent_NoPrice(pLower, pUpper, p) == Not(pUpper) \/ Not(pLower)

(* if (!priceUpper || !priceLower || !price) return; *)
riskInputsAbsent(pLower, pUpper, p) == Not(pUpper) \/ Not(pLower) \/ Not(p)

(* One run of the callback of the risk memo: the local rangePercent and the
   returned score, both undefined after the early return. *)
riskCallback(pLower, pUpper, p) ==
  IF riskInputsAbsent(pLower, pUpper, p)
  THEN [rangePercent |-> Undefined, score |-> Undefined]
  ELSE LET rp == rangePercentOf(pLower, pUpper, p)
       IN  [rangePercent |-> rp, score |-> riskBands(rp)]

(* The value of the risk memo. *)
computeRiskScore(pLower, pUpper, p) == riskCallback(pLower, pUpper, p).score

(* Number of circles of the indicator: for (let i = 0; i < 5; i++) *)
Segments == 5

(* segmentFill that pushes the bare fraction, not the percentage *)
segmentFill_NoPercent(i, parts) ==
  IF FLt(IntLit(i), ToNumber(At(parts, 0))) THEN IntLit(100)
  ELSE IF StrictEq(IntLit(i), ToNumber(At(parts, 0)))
       THEN parseFloat(Concat(Str(<<"0", ".">>), At(parts, 1)))
  ELSE IntLit(0)

(* The body of the loop of the _risk memo for index i. *)
segmentFill(i, parts) ==
  IF FLt(IntLit(i), ToNumber(At(parts, 0))) THEN IntLit(100)
  ELSE IF StrictEq(IntLit(i), ToNumber(At(parts, 0)))
       THEN FMul(parseFloat(Concat(Str(<<"0", ".">>), At(parts, 1))), IntLit(100))
  ELSE IntLit(0)

(* The callback of the _risk memo. *)
scoreToFiveSegmentFill(score) ==
  LET parts == IF score = Undefined THEN Undefined
               ELSE split(toString(score), ".")
  IN  IF parts = Undefined THEN Undefined
      ELSE Arr([i \in 1..Segments |-> segmentFill(i - 1, parts)])

(* useMemo: the callback runs only when a dependency has changed. *)
useMemo(old, new, depsChanged) == IF depsChanged THEN new ELSE old

-----------------------------------------------------------------------------
(* State *)

VARIABLES
  priceLower,        \* prop: string or undefined
  priceUpper,        \* prop: string or undefined
  price,             \* prop: string or undefined
  isStablecoinPair,  \* prop: boolean
  ranges,            \* value of the ranges memo
  rangePercent,      \* local of the last run of the risk memo callback
  risk,              \* value of the risk memo
  _risk,             \* value of the _risk memo
  invalidRange,      \* prop: mintInfo.invalidRange
  riskInfoShown      \* rendered output: the risk / profit block is in the tree

presetVars == <<priceLower, priceUpper, price, isStablecoinPair, ranges,
                rangePercent, risk, _risk, invalidRange, riskInfoShown>>

(* AddLiquidityButton: the props and state the price display depends on,
   and the values one render derives from them. *)
VARIABLES
  baseCurrency,      \* prop: Currency or undefined
  quoteCurrency,     \* prop: Currency or undefined
  mintInfo,          \* prop: the part of IDerivedMintInfo read here
  manuallyInverted,  \* state: useState(false)
  _priceLower,       \* memo: mintInfo.pricesAtTicks[Bound.LOWER]
  _priceUpper,       \* memo: mintInfo.pricesAtTicks[Bound.UPPER]
  inverter,          \* result of useInverter: priceLower, priceUpper, base
  isSorted,          \* local of the render
  inverted,          \* local of the render
  currencyQuote,     \* local of the render
  currencyBase       \* local of the render

addDisplay == <<baseCurrency, quoteCurrency, mintInfo, manuallyInverted,
                _priceLower, _priceUpper, inverter, isSorted, inverted,
                currencyQuote, currencyBase>>

(* AddLiquidityButton: the values the submission of the transaction reads,
   the component's state, the parent's rejected flag and the promises of
   onAdd that have not settled.  account and the expert mode come from the
   hooks Swap reads them from, invalidRange from the mintInfo PresetRanges
   reads it from. *)
VARIABLES
  chainId,                   \* useActiveWeb3React
  library,                   \* useActiveWeb3React
  positionManager,           \* useV3NFTPositionManagerContract
  deadline,                  \* useTransactionDeadline
  position,                  \* mintInfo.position
  depositADisabled,          \* mintInfo.depositADisabled
  depositBDisabled,          \* mintInfo.depositBDisabled
  errorMessage,              \* mintInfo.errorMessage
  approvalA,                 \* useApproveCallback of CURRENCY_A
  approvalB,                 \* useApproveCallback of CURRENCY_B
  isNetworkFailed,           \* useIsNetworkFailedImmediate
  txHash,                    \* useAddLiquidityTxHash
  showConfirm,               \* state: useState(false)
  attemptingTxn,             \* state: useState(false)
  txPending,                 \* state: useState(false)
  addLiquidityErrorMessage,  \* state: useState(null)
  rejected,                  \* the flag setRejected writes in the parent
  addPending                 \* bag of the unsettled promises of onAdd

addInputs == <<chainId, library, positionManager, deadline, position,
               depositADisabled, depositBDisabled, errorMessage, approvalA,
               approvalB, isNetworkFailed>>

addState == <<txHash, showConfirm, attemptingTxn, txPending,
              addLiquidityErrorMessage, rejected, addPending>>

addFlow == <<addInputs, addState>>

addVars == <<addDisplay, addFlow>>

(* Swap: the values the hooks return, the component's state, and the
   promises of handleSwap that have not settled. *)
VARIABLES
  account,                      \* useActiveWeb3React: address or undefined
  isSupportedNetwork,           \* useIsSupportedNetwork
  wrapType,                     \* useWrapCallback
  wrapInputError,               \* useWrapCallback: message or undefined
  versionTrade,                 \* tradesByVersion[toggledVersion]
  userHasSpecifiedInputOutput,  \* both currencies and a positive amount
  swapInputError,               \* useDerivedSwapInfo: message or undefined
  approval,                     \* useApproveCallbackFromTrade
  approvalSubmitted,            \* state: useState(false)
  priceImpactSeverity,          \* warningSeverity(priceImpactWithoutFee)
  isExpertMode,                 \* useExpertModeManager
  inputCurrency,                \* currencies[Field.INPUT]
  swapCallback,                 \* useSwapCallback: function or null
  swapCallbackError,            \* useSwapCallback: message or null
  typedValue,                   \* useSwapState: the typed amount
  swapState,                    \* state: showConfirm, txPending, ...
  pending,                      \* bag of unsettled handleSwap promises
  dismissed                     \* history: dismissed since the last onSwap

swapInputs == <<account, isSupportedNetwork, wrapType, wrapInputError,
                versionTrade, userHasSpecifiedInputOutput, swapInputError,
                approval, approvalSubmitted, priceImpactSeverity,
                isExpertMode, inputCurrency, swapCallback, swapCallbackError>>

swapFlow == <<typedValue, swapState, pending, dismissed>>

swapVars == <<swapInputs, swapFlow>>

vars == <<presetVars, addVars, swapVars>>

(* The price strings the parent passes down in this model: the bounds and
   price of the worked example (0.9, 1.2, 1), prices that put rangePercent
   on each band boundary with priceLower = 1 (1.075, 1.15, 1.3, 1.6, 2.2) and
   on 24 (1.24), and the degenerate strings "0", "-1" and a non-numeric one. *)
PriceSamples ==
  { <<"0">>, <<"0", ".", "9">>, <<"1">>, <<"1", ".", "0", "7", "5">>,
    <<"1", ".", "1", "5">>, <<"1", ".", "2">>, <<"1", ".", "2", "4">>,
    <<"1", ".", "3">>, <<"1", ".", "6">>, <<"2", ".", "2">>,
    <<"-", "1">>, <<"x">> }

PriceProps == {Undefined, Str(<<>>)} \cup {Str(cs) : cs \in PriceSamples}

(* The JSX condition that guards the risk / profit block. *)
showRiskInfo_IgnoresStable(fill, invalid, stable) ==
  fill /= Undefined /\ ~invalid

showRiskInfo(fill, invalid, stable) ==
  fill /= Undefined /\ ~invalid /\ ~stable

(* The dependency list of the risk memo, [price, priceLower, priceUpper],
   compared with the one of the previous render. *)
riskDepsChanged_NoUpper(pLower, pUpper, p) ==
  <<p, pLower>> /= <<price, priceLower>>

riskDepsChanged(pLower, pUpper, p) ==
  <<p, pLower, pUpper>> /= <<price, priceLower, priceUpper>>

(* One render of the component with the given props: the three memos and
   the returned tree. *)
Render(pLower, pUpper, p, stable, invalid) ==
  /\ priceLower' = pLower
  /\ priceUpper' = pUpper
  /\ price' = p
  /\ isStablecoinPair' = stable
  /\ ranges' = useMemo(ranges, derivePresets(stable), stable /= isStablecoinPair)
  /\ \E run \in { useMemo([rangePercent |-> rangePercent, score |-> risk],
                           riskCallback(pLower, pUpper, p),
                           riskDepsChanged(pLower, pUpper, p)) } :
       /\ rangePercent' = run.rangePercent
       /\ risk' = run.score
  /\ _risk' = useMemo(_risk, scoreToFiveSegmentFill(risk'), risk' /= risk)
  /\ invalidRange' = invalid
  /\ riskInfoShown' = showRiskInfo(_risk', invalid, stable)
  /\ UNCHANGED <<addVars, swapVars>>

(* First render: no bounds and no price yet, every memo callback runs. *)
PresetInit ==
  /\ priceLower = Undefined
  /\ priceUpper = Undefined
  /\ price = Undefined
  /\ isStablecoinPair \in BOOLEAN
  /\ ranges = derivePresets(isStablecoinPair)
  /\ rangePercent = Undefined
  /\ risk = computeRiskScore(priceLower, priceUpper, price)
  /\ _risk = scoreToFiveSegmentFill(risk)
  /\ invalidRange \in BOOLEAN
  /\ riskInfoShown = showRiskInfo(_risk, invalidRange, isStablecoinPair)

SetPriceLower ==
  \E s \in PriceProps :
    Render(s, priceUpper, price, isStablecoinPair, invalidRange)

SetPriceUpper ==
  \E s \in PriceProps :
    Render(priceLower, s, price, isStablecoinPair, invalidRange)

SetPrice ==
  \E s \in PriceProps :
    Render(priceLower, priceUpper, s, isStablecoinPair, invalidRange)

SetIsStablecoinPair ==
  \E b \in BOOLEAN :
    Render(priceLower, priceUpper, price, b, invalidRange)

SetInvalidRange ==
  \E b \in BOOLEAN :
    Render(priceLower, priceUpper, price, isStablecoinPair, b)

-----------------------------------------------------------------------------
(* The AddLiquidityButton component: the displayed price range *)

(* A boolean as a JavaScript value. *)
Bool(b) == [k |-> "bool", b |-> b]

(* JavaScript null *)
Null == [k |-> "null"]

(* x is truthy, for undefined, null, booleans, strings and objects *)
Truthy(x) ==
  /\ x.k \notin {"undefined", "null"}
  /\ x.k = "bool" => x.b
  /\ x.k = "str" => x.s /= <<>>

(* Number of distinct token addresses. *)
NumTokens == 2

(* A Token of the chain, and the native currency. *)
Token(address) == [k |-> "token", address |-> address]

Native == [k |-> "native"]

(* The address of the token that wraps the native currency. *)
WrappedNativeAddress == 1

Currencies == {Native} \cup {Token(a) : a \in 1..NumTokens}

(* currency?.wrapped *)
wrapped(currency) ==
  IF currency = Undefined THEN Undefined
  ELSE IF currency = Native THEN Token(WrappedNativeAddress)
  ELSE currency

(* Token.sortsBefore: the order of the addresses; the two tokens differ *)
sortsBefore(a, b) == a.address < b.address

(* Token.equals *)
equals(a, b) == b.k = "token" /\ a.address = b.address

(* A Price: the fraction numerator / denominator. *)
Price(numerator, denominator) ==
  [k |-> "price", numerator |-> numerator, denominator |-> denominator]

(* invert that keeps the old denominator *)
invert_KeepsDenominator(p) == Price(p.denominator, p.denominator)

(* Price.invert: the reciprocal, numerator and denominator exchanged *)
invert(p) == Price(p.denominator, p.numerator)

(* price?.invert() *)
optInvert(p) == IF p = Undefined THEN Undefined ELSE invert(p)

(* useInverter: with invert on, the new lower bound is the reciprocal of the
   old upper bound, the new upper bound the reciprocal of the old lower
   bound, and base and quote change places; otherwise nothing changes. *)
useInverter(args) ==
  [priceLower |-> IF args.invert THEN optInvert(args.priceUpper)
                  ELSE args.priceLower,
   priceUpper |-> IF args.invert THEN optInvert(args.priceLower)
                  ELSE args.priceUpper,
   quote |-> IF args.invert THEN args.base ELSE args.quote,
   base |-> IF args.invert THEN args.quote ELSE args.base]

(* baseWrapped && quoteWrapped && baseWrapped.sortsBefore(quoteWrapped) *)
isSortedOf(baseWrapped, quoteWrapped) ==
  IF ~Truthy(baseWrapped) THEN baseWrapped
  ELSE IF ~Truthy(quoteWrapped) THEN quoteWrapped
  ELSE Bool(sortsBefore(baseWrapped, quoteWrapped))

(* base?.equals(token) *)
optEquals(base, token) ==
  IF base = Undefined THEN Undefined ELSE Bool(equals(base, token))

(* invertedOf that compares the base with the quote token in both orders *)
invertedOf_IgnoresSort(sorted, baseWrapped, quoteWrapped, base) ==
  IF ~Truthy(quoteWrapped) THEN quoteWrapped
  ELSE optEquals(base, quoteWrapped)

(* isSorted ? quoteWrapped && base?.equals(quoteWrapped)
            : baseWrapped && base?.equals(baseWrapped) *)
invertedOf(sorted, baseWrapped, quoteWrapped, base) ==
  IF Truthy(sorted)
  THEN IF ~Truthy(quoteWrapped) THEN quoteWrapped
       ELSE optEquals(base, quoteWrapped)
  ELSE IF ~Truthy(baseWrapped) THEN baseWrapped
       ELSE optEquals(base, baseWrapped)

(* The ticks' prices the parent passes down in this model: none, zero, and
   the fractions 4/5, 1, 6/5 and 3/2. *)
TickPrices ==
  {Undefined, Price(0, 1), Price(4, 5), Price(1, 1), Price(6, 5), Price(3, 2)}

MintInfos ==
  { [pricesAtTicks |-> [LOWER |-> lo, UPPER |-> up]] :
      lo \in TickPrices, up \in TickPrices }

(* inverterArgs with the two bounds in each other's place *)
inverterArgs_BoundsExchanged(lower, upper, quote, base, manual) ==
  [priceLower |-> upper, priceUpper |-> lower,
   quote |-> quote, base |-> base, invert |-> manual]

(* The argument of the useInverter call. *)
inverterArgs(lower, upper, quote, base, manual) ==
  [priceLower |-> lower, priceUpper |-> upper,
   quote |-> quote, base |-> base, invert |-> manual]

(* One render of the component: the memo of the ticks' prices, the
   inverter, and the locals derived from its base. *)
AddRender(base, quote, info, manual) ==
  /\ baseCurrency' = base
  /\ quoteCurrency' = quote
  /\ mintInfo' = info
  /\ manuallyInverted' = manual
  /\ _priceLower' = useMemo(_priceLower, info.pricesAtTicks.LOWER,
                            info /= mintInfo)
  /\ _priceUpper' = useMemo(_priceUpper, info.pricesAtTicks.UPPER,
                            info /= mintInfo)
  /\ inverter' = useInverter(inverterArgs(_priceLower', _priceUpper',
                                          wrapped(quote), wrapped(base),
                                          manual))
  /\ isSorted' = isSortedOf(wrapped(base), wrapped(quote))
  /\ inverted' = invertedOf(isSorted', wrapped(base), wrapped(quote),
                            inverter'.base)
  /\ currencyQuote' = IF Truthy(inverted') THEN base ELSE quote
  /\ currencyBase' = IF Truthy(inverted') THEN quote ELSE base
  /\ UNCHANGED <<addFlow, presetVars, swapVars>>

(* First render: no currency chosen, no tick set, the display not
   inverted. *)
AddInit ==
  /\ baseCurrency = Undefined
  /\ quoteCurrency = Undefined
  /\ mintInfo = [pricesAtTicks |-> [LOWER |-> Undefined, UPPER |-> Undefined]]
  /\ manuallyInverted = FALSE
  /\ _priceLower = Undefined
  /\ _priceUpper = Undefined
  /\ inverter = useInverter(inverterArgs(Undefined, Undefined, Undefined,
                                         Undefined, FALSE))
  /\ isSorted = Undefined
  /\ inverted = Undefined
  /\ currencyQuote = Undefined
  /\ currencyBase = Undefined

(* The parent passes two currencies whose wrapped tokens differ, or leaves
   one out: sortsBefore throws on equal addresses. *)
Selectable(base, quote) ==
  base = Undefined \/ quote = Undefined \/ wrapped(base) /= wrapped(quote)

SetBaseCurrency ==
  \E c \in Currencies \cup {Undefined} :
    /\ Selectable(c, quoteCurrency)
    /\ AddRender(c, quoteCurrency, mintInfo, manuallyInverted)

SetQuoteCurrency ==
  \E c \in Currencies \cup {Undefined} :
    /\ Selectable(baseCurrency, c)
    /\ AddRender(baseCurrency, c, mintInfo, manuallyInverted)

SetMintInfo ==
  \E info \in MintInfos :
    AddRender(baseCurrency, quoteCurrency, info, manuallyInverted)

(* handleRateToggle of the RateToggle in the modal header, which is rendered
   when currencyBase and currencyQuote are both set. *)
HandleRateToggle ==
  /\ Truthy(currencyBase)
  /\ Truthy(currencyQuote)
  /\ AddRender(baseCurrency, quoteCurrency, mintInfo, ~manuallyInverted)

-----------------------------------------------------------------------------
(* The Swap component *)

(* enum WrapType *)
NOT_APPLICABLE == "NOT_APPLICABLE"

WRAP == "WRAP"

UNWRAP == "UNWRAP"

WrapTypes == {NOT_APPLICABLE, WRAP, UNWRAP}

(* enum ApprovalState *)
UNKNOWN == "UNKNOWN"

NOT_APPROVED == "NOT_APPROVED"

PENDING == "PENDING"

APPROVED == "APPROVED"

ApprovalStates == {UNKNOWN, NOT_APPROVED, PENDING, APPROVED}

(* The values warningSeverity returns. *)
Severities == 0..4

(* A Trade; every trade has a route. *)
Trade(id) == [k |-> "trade", id |-> id, route |-> [k |-> "route"]]

(* The trades the hooks return in this model: a quote and a requote. *)
Trades == {Trade(1), Trade(2)}

(* The connected account, an error message, a callback. *)
Account == Str(<<"0", "x", "a">>)

SomeError == Str(<<"e", "r", "r", "o", "r">>)

Callable == [k |-> "function"]

(* The input currencies offered in this model: ETHER and one token. *)
InputCurrencies == {Native, Token(1)}

(* What useSwapCallback returns, callback and error: valid, invalid, and
   loading. *)
SwapCallbackResults ==
  {<<Callable, Undefined>>, <<Undefined, SomeError>>, <<Undefined, Undefined>>}

(* Number of promises of handleSwap, and of onAdd, that are unsettled at one
   time. *)
MaxInFlight == 2

(* response.hash: the hash of a submitted transaction *)
TxHash == Str(<<"0", "x", "1">>)

(* const showWrap = wrapType !== WrapType.NOT_APPLICABLE *)
showWrap == wrapType /= NOT_APPLICABLE

(* const trade = showWrap ? undefined : tradesByVersion[toggledVersion] *)
trade == IF showWrap THEN Undefined ELSE versionTrade

(* const route = trade?.route *)
route == IF trade = Undefined THEN Undefined ELSE trade.route

(* const noRoute = !route *)
noRoute == ~Truthy(route)

(* computeTradePriceBreakdown(trade).priceImpactWithoutFee: none without a
   trade *)
priceImpactWithoutFee ==
  IF trade = Undefined THEN Undefined ELSE [k |-> "percent"]

(* const isValid = !swapInputError *)
isValid == ~Truthy(swapInputError)

(* showApproveFlow that counts only an approval this form submitted *)
showApproveFlow_OnlySubmitted ==
  /\ ~Truthy(swapInputError)
  /\ (approvalSubmitted /\ approval = APPROVED)
  /\ ~(priceImpactSeverity > 3 /\ ~isExpertMode)

showApproveFlow ==
  /\ ~Truthy(swapInputError)
  /\ \/ approval = NOT_APPROVED
     \/ approval = PENDING
     \/ (approvalSubmitted /\ approval = APPROVED)
  /\ ~(priceImpactSeverity > 3 /\ ~isExpertMode)

(* inputCurrency && chainId && currencyEquals(inputCurrency, ETHER[chainId]):
   the chain id is known whenever an account is *)
inputIsEther == Truthy(inputCurrency) /\ inputCurrency = Native

(* swapButtonDisabled whose last branch leaves the price impact out *)
swapButtonDisabled_NoImpactCheck ==
  IF Truthy(account)
  THEN IF ~isSupportedNetwork THEN FALSE
       ELSE IF showWrap THEN Truthy(wrapInputError)
       ELSE IF noRoute /\ userHasSpecifiedInputOutput THEN TRUE
       ELSE IF showApproveFlow
            THEN \/ ~isValid
                 \/ approval /= APPROVED
                 \/ (priceImpactSeverity > 3 /\ ~isExpertMode)
       ELSE \/ (inputIsEther /\ approval = UNKNOWN)
            \/ ~isValid
            \/ Truthy(swapCallbackError)
  ELSE FALSE

(* The swapButtonDisabled memo; its dependency list names every value the
   callback reads. *)
swapButtonDisabled ==
  IF Truthy(account)
  THEN IF ~isSupportedNetwork THEN FALSE
       ELSE IF showWrap THEN Truthy(wrapInputError)
       ELSE IF noRoute /\ userHasSpecifiedInputOutput THEN TRUE
       ELSE IF showApproveFlow
            THEN \/ ~isValid
                 \/ approval /= APPROVED
                 \/ (priceImpactSeverity > 3 /\ ~isExpertMode)
       ELSE \/ (inputIsEther /\ approval = UNKNOWN)
            \/ ~isValid
            \/ (priceImpactSeverity > 3 /\ ~isExpertMode)
            \/ Truthy(swapCallbackError)
  ELSE FALSE

(* The swap button runs onSwap: it is not disabled, and its onClick is
   account && isSupportedNetwork ? onSwap : connectWallet. *)
onSwapFromButton ==
  ~swapButtonDisabled /\ Truthy(account) /\ isSupportedNetwork

(* The object given to setSwapState replaces the state: a field that is
   left out is undefined afterwards. *)
SwapStateOf(show, pendingTx, tradeToConfirm, attempting, message, hash) ==
  [showConfirm |-> show, txPending |-> pendingTx,
   tradeToConfirm |-> tradeToConfirm, attemptingTxn |-> attempting,
   swapErrorMessage |-> message, txHash |-> hash]

setSwapState(state) == swapState' = state

(* useActiveWeb3React: the wallet connects or disconnects *)
SetAccount ==
  \E a \in {Undefined, Account} :
    /\ account' = a
    /\ UNCHANGED <<isSupportedNetwork, wrapType, wrapInputError,
                   versionTrade, userHasSpecifiedInputOutput, swapInputError,
                   approval, approvalSubmitted, priceImpactSeverity,
                   isExpertMode, inputCurrency, swapCallback,
                   swapCallbackError, swapFlow, presetVars, addVars>>

(* useIsSupportedNetwork *)
SetIsSupportedNetwork ==
  \E b \in BOOLEAN :
    /\ isSupportedNetwork' = b
    /\ UNCHANGED <<account, wrapType, wrapInputError, versionTrade,
                   userHasSpecifiedInputOutput, swapInputError, approval,
                   approvalSubmitted, priceImpactSeverity, isExpertMode,
                   inputCurrency, swapCallback, swapCallbackError, swapFlow,
                   presetVars, addVars>>

(* useWrapCallback returns another wrapType and inputError *)
SetWrapCallback ==
  \E wt \in WrapTypes, e \in {Undefined, SomeError} :
    /\ wrapType' = wt
    /\ wrapInputError' = e
    /\ UNCHANGED <<account, isSupportedNetwork, versionTrade,
                   userHasSpecifiedInputOutput, swapInputError, approval,
                   approvalSubmitted, priceImpactSeverity, isExpertMode,
                   inputCurrency, swapCallback, swapCallbackError, swapFlow,
                   presetVars, addVars>>

(* useDerivedSwapInfo returns another trade, or none *)
SetVersionTrade ==
  \E tr \in Trades \cup {Undefined} :
    /\ versionTrade' = tr
    /\ UNCHANGED <<account, isSupportedNetwork, wrapType, wrapInputError,
                   userHasSpecifiedInputOutput, swapInputError, approval,
                   approvalSubmitted, priceImpactSeverity, isExpertMode,
                   inputCurrency, swapCallback, swapCallbackError, swapFlow,
                   presetVars, addVars>>

(* the currencies or the parsed amount change *)
SetUserHasSpecifiedInputOutput ==
  \E b \in BOOLEAN :
    /\ userHasSpecifiedInputOutput' = b
    /\ UNCHANGED <<account, isSupportedNetwork, wrapType, wrapInputError,
                   versionTrade, swapInputError, approval, approvalSubmitted,
                   priceImpactSeverity, isExpertMode, inputCurrency,
                   swapCallback, swapCallbackError, swapFlow, presetVars,
                   addVars>>

(* useDerivedSwapInfo returns another inputError *)
SetSwapInputError ==
  \E e \in {Undefined, SomeError} :
    /\ swapInputError' = e
    /\ UNCHANGED <<account, isSupportedNetwork, wrapType, wrapInputError,
                   versionTrade, userHasSpecifiedInputOutput, approval,
                   approvalSubmitted, priceImpactSeverity, isExpertMode,
                   inputCurrency, swapCallback, swapCallbackError, swapFlow,
                   presetVars, addVars>>

(* useApproveCallbackFromTrade returns another state; the effect on
   [approval, approvalSubmitted] records a pending approval *)
SetApproval ==
  \E a \in ApprovalStates :
    /\ approval' = a
    /\ approvalSubmitted' = (approvalSubmitted \/ a = PENDING)
    /\ UNCHANGED <<account, isSupportedNetwork, wrapType, wrapInputError,
                   versionTrade, userHasSpecifiedInputOutput, swapInputError,
                   priceImpactSeverity, isExpertMode, inputCurrency,
                   swapCallback, swapCallbackError, swapFlow, presetVars,
                   addVars>>

(* handleCurrencySelect: resets the approval step, and the redirect selects
   the input currency *)
HandleCurrencySelect ==
  \E c \in Currencies :
    /\ approvalSubmitted' = FALSE
    /\ inputCurrency' = c
    /\ UNCHANGED <<account, isSupportedNetwork, wrapType, wrapInputError,
                   versionTrade, userHasSpecifiedInputOutput, swapInputError,
                   approval, priceImpactSeverity, isExpertMode, swapCallback,
                   swapCallbackError, swapFlow, presetVars, addVars>>

(* warningSeverity of the trade's price impact *)
SetPriceImpactSeverity ==
  \E n \in Severities :
    /\ priceImpactSeverity' = n
    /\ UNCHANGED <<account, isSupportedNetwork, wrapType, wrapInputError,
                   versionTrade, userHasSpecifiedInputOutput, swapInputError,
                   approval, approvalSubmitted, isExpertMode, inputCurrency,
                   swapCallback, swapCallbackError, swapFlow, presetVars,
                   addVars>>

(* useExpertModeManager *)
SetIsExpertMode ==
  \E b \in BOOLEAN :
    /\ isExpertMode' = b
    /\ UNCHANGED <<account, isSupportedNetwork, wrapType, wrapInputError,
                   versionTrade, userHasSpecifiedInputOutput, swapInputError,
                   approval, approvalSubmitted, priceImpactSeverity,
                   inputCurrency, swapCallback, swapCallbackError, swapFlow,
                   presetVars, addVars>>

(* useSwapCallback returns another callback and error *)
SetSwapCallback ==
  \E result \in SwapCallbackResults :
    /\ swapCallback' = result[1]
    /\ swapCallbackError' = result[2]
    /\ UNCHANGED <<account, isSupportedNetwork, wrapType, wrapInputError,
                   versionTrade, userHasSpecifiedInputOutput, swapInputError,
                   approval, approvalSubmitted, priceImpactSeverity,
                   isExpertMode, inputCurrency, swapFlow, presetVars,
                   addVars>>

(* onUserInput(Field.INPUT, value) from the amount field *)
HandleTypeInput ==
  \E value \in {Str(<<>>), Str(<<"1">>)} :
    /\ typedValue' = value
    /\ UNCHANGED <<swapState, pending, dismissed, swapInputs,
                   presetVars, addVars>>

(* handleSwap starting an attempt without clearing the error message of
   the attempt before it. *)
handleSwap_KeepsError(answer) ==
  IF Truthy(priceImpactWithoutFee) /\ ~answer
  THEN UNCHANGED <<swapState, pending>>
  ELSE IF ~Truthy(swapCallback)
  THEN UNCHANGED <<swapState, pending>>
  ELSE /\ BagCardinality(pending) < MaxInFlight
       /\ setSwapState(SwapStateOf(swapState.showConfirm, Undefined,
                                   swapState.tradeToConfirm, TRUE,
                                   swapState.swapErrorMessage, Undefined))
       /\ pending' = pending (+) SetToBag(
            { [stage |-> "swapCallback",
               showConfirm |-> swapState.showConfirm,
               tradeToConfirm |-> swapState.tradeToConfirm] })

(* The body of handleSwap: the user's answer to the price impact
   confirmation, the two early returns, then the state of an attempt and
   the swapCallback promise, whose continuations keep the tradeToConfirm
   and showConfirm of the render that created this handleSwap. *)
handleSwap(answer) ==
  IF Truthy(priceImpactWithoutFee) /\ ~answer
  THEN UNCHANGED <<swapState, pending>>
  ELSE IF ~Truthy(swapCallback)
  THEN UNCHANGED <<swapState, pending>>
  ELSE /\ BagCardinality(pending) < MaxInFlight
       /\ setSwapState(SwapStateOf(swapState.showConfirm, Undefined,
                                   swapState.tradeToConfirm, TRUE,
                                   Undefined, Undefined))
       /\ pending' = pending (+) SetToBag(
            { [stage |-> "swapCallback",
               showConfirm |-> swapState.showConfirm,
               tradeToConfirm |-> swapState.tradeToConfirm] })

(* onWrap, the execute of useWrapCallback, is set when the wrap has no
   input error *)
onWrap == IF Truthy(wrapInputError) THEN Undefined ELSE Callable

(* onSwap *)
onSwap ==
  IF showWrap /\ Truthy(onWrap)
  THEN UNCHANGED <<swapState, pending>>
  ELSE IF isExpertMode
  THEN \E answer \in BOOLEAN : handleSwap(answer)
  ELSE /\ setSwapState(SwapStateOf(TRUE, Undefined, trade, FALSE,
                                   Undefined, Undefined))
       /\ UNCHANGED pending

(* A click on the swap button that runs onSwap. *)
ClickSwapButton ==
  /\ onSwapFromButton
  /\ onSwap
  /\ dismissed' = FALSE
  /\ UNCHANGED <<typedValue, swapInputs, presetVars, addVars>>

(* onConfirm of the ConfirmSwapModal, which is rendered while showConfirm
   holds. *)
HandleSwap ==
  /\ swapState.showConfirm
  /\ \E answer \in BOOLEAN : handleSwap(answer)
  /\ UNCHANGED <<typedValue, dismissed, swapInputs, presetVars, addVars>>

(* onAcceptChanges of the ConfirmSwapModal *)
HandleAcceptChanges ==
  /\ swapState.showConfirm
  /\ setSwapState(SwapStateOf(swapState.showConfirm, Undefined, trade,
                              swapState.attemptingTxn,
                              swapState.swapErrorMessage, swapState.txHash))
  /\ UNCHANGED <<typedValue, pending, dismissed, swapInputs,
                 presetVars, addVars>>

(* handleConfirmDismiss clearing the typed amount whether or not there is
   a transaction hash. *)
HandleConfirmDismiss_AlwaysClears ==
  /\ swapState.showConfirm
  /\ setSwapState(SwapStateOf(FALSE, Undefined, swapState.tradeToConfirm,
                              swapState.attemptingTxn,
                              swapState.swapErrorMessage, swapState.txHash))
  /\ typedValue' = Str(<<>>)
  /\ dismissed' = TRUE
  /\ UNCHANGED <<pending, swapInputs, presetVars, addVars>>

(* onDismiss of the ConfirmSwapModal *)
HandleConfirmDismiss ==
  /\ swapState.showConfirm
  /\ setSwapState(SwapStateOf(FALSE, Undefined, swapState.tradeToConfirm,
                              swapState.attemptingTxn,
                              swapState.swapErrorMessage, swapState.txHash))
  /\ typedValue' = IF Truthy(swapState.txHash) THEN Str(<<>>) ELSE typedValue
  /\ dismissed' = TRUE
  /\ UNCHANGED <<pending, swapInputs, presetVars, addVars>>

(* swapCallback() resolves with the response: the then callback up to its
   await of response.wait() *)
SwapCallbackResolves ==
  \E p \in BagToSet(pending) :
    /\ p.stage = "swapCallback"
    /\ setSwapState(SwapStateOf(p.showConfirm, Bool(TRUE), p.tradeToConfirm,
                                FALSE, Undefined, TxHash))
    /\ pending' = (pending (-) SetToBag({p}))
                     (+) SetToBag({[p EXCEPT !.stage = "wait"]})
    /\ UNCHANGED <<typedValue, dismissed, swapInputs, presetVars,
                   addVars>>

(* swapCallback() rejects: the catch callback *)
SwapCallbackRejects ==
  \E p \in BagToSet(pending) :
    /\ p.stage = "swapCallback"
    /\ setSwapState(SwapStateOf(p.showConfirm, Undefined, p.tradeToConfirm,
                                FALSE, SomeError, Undefined))
    /\ pending' = pending (-) SetToBag({p})
    /\ UNCHANGED <<typedValue, dismissed, swapInputs, presetVars,
                   addVars>>

(* response.wait() resolves: the rest of the try block *)
WaitResolves ==
  \E p \in BagToSet(pending) :
    /\ p.stage = "wait"
    /\ setSwapState(SwapStateOf(p.showConfirm, Bool(FALSE), p.tradeToConfirm,
                                FALSE, Undefined, TxHash))
    /\ pending' = pending (-) SetToBag({p})
    /\ UNCHANGED <<typedValue, dismissed, swapInputs, presetVars,
                   addVars>>

(* response.wait() rejects: the catch block of the try *)
WaitRejects ==
  \E p \in BagToSet(pending) :
    /\ p.stage = "wait"
    /\ setSwapState(SwapStateOf(p.showConfirm, Undefined, p.tradeToConfirm,
                                FALSE, SomeError, Undefined))
    /\ pending' = pending (-) SetToBag({p})
    /\ UNCHANGED <<typedValue, dismissed, swapInputs, presetVars,
                   addVars>>

(* The confirmation state of the first render, no promise started. *)
SwapFlowInit ==
  /\ typedValue = Str(<<>>)
  /\ swapState = SwapStateOf(FALSE, Bool(FALSE), Undefined, FALSE,
                             Undefined, Undefined)
  /\ pending = EmptyBag
  /\ dismissed = FALSE

(* First render: no wallet, no currency, no trade. *)
SwapInit ==
  /\ account = Undefined
  /\ isSupportedNetwork = TRUE
  /\ wrapType = NOT_APPLICABLE
  /\ wrapInputError = Undefined
  /\ versionTrade = Undefined
  /\ userHasSpecifiedInputOutput = FALSE
  /\ swapInputError = SomeError
  /\ approval = UNKNOWN
  /\ approvalSubmitted = FALSE
  /\ priceImpactSeverity = 0
  /\ isExpertMode = FALSE
  /\ inputCurrency = Undefined
  /\ swapCallback = Undefined
  /\ swapCallbackError = SomeError
  /\ SwapFlowInit

(* A form that is ready to swap: wallet connected on a supported network,
   a token pair with an amount and a trade, the token approved. *)
SwapReady ==
  /\ account = Account
  /\ isSupportedNetwork = TRUE
  /\ wrapType = NOT_APPLICABLE
  /\ wrapInputError = Undefined
  /\ versionTrade = Trade(1)
  /\ userHasSpecifiedInputOutput = TRUE
  /\ swapInputError = Undefined
  /\ approval = APPROVED
  /\ approvalSubmitted = FALSE
  /\ priceImpactSeverity = 0
  /\ isExpertMode = FALSE
  /\ inputCurrency = Token(1)
  /\ swapCallback = Callable
  /\ swapCallbackError = Undefined
  /\ typedValue = Str(<<"1">>)
  /\ swapState = SwapStateOf(FALSE, Bool(FALSE), Undefined, FALSE,
                             Undefined, Undefined)
  /\ pending = EmptyBag
  /\ dismissed = FALSE

-----------------------------------------------------------------------------
(* The AddLiquidityButton component: the submission of the transaction *)

(* const expertMode = useIsExpertMode() *)
expertMode == isExpertMode

(* The setRejected prop: the parent passes its setter. *)
setRejected == Callable

(* error?.code of a transaction the user rejected in the wallet *)
UserRejected == 4001

(* The codes of the errors in this model: the user's rejection and an
   internal JSON-RPC error. *)
ErrorCodes == {UserRejected, -32603}

(* error?.code === 4001 ? t('txRejected') : t('errorInTx') *)
errorMessageOf(code) ==
  IF code = UserRejected THEN Str(t("txRejected")) ELSE Str(t("errorInTx"))

(* One unsettled promise of a run of onAdd: estimateGas, sendTransaction or
   response.wait(). *)
Promise(stage) == [stage |-> stage]

(* const isReady = useMemo(...): every value read is a dependency *)
isReady ==
  /\ (IF depositADisabled THEN TRUE ELSE approvalA = APPROVED)
  /\ (IF depositBDisabled THEN TRUE ELSE approvalB = APPROVED)
  /\ ~Truthy(errorMessage)
  /\ ~invalidRange
  /\ ~Truthy(txHash)
  /\ ~isNetworkFailed

(* The content of the modal is the confirmation with its confirm button when
   there is no error message.  The modal itself decides when it shows its
   content; here it shows it only while no attempt is in progress and no
   hash is known, so that the confirm button never starts a run that the
   modal could have hidden. *)
confirmButtonShown ==
  /\ showConfirm
  /\ ~Truthy(addLiquidityErrorMessage)
  /\ ~attemptingTxn
  /\ ~Truthy(txHash)

(* async function onAdd(): the three early returns, then setRejected(false),
   setAttemptingTxn(true) and the estimateGas promise *)
onAdd ==
  IF ~Truthy(chainId) \/ ~Truthy(library) \/ ~Truthy(account)
  THEN UNCHANGED addState
  ELSE IF ~Truthy(positionManager) \/ ~Truthy(baseCurrency)
          \/ ~Truthy(quoteCurrency)
  THEN UNCHANGED addState
  ELSE IF Truthy(position) /\ Truthy(account) /\ Truthy(deadline)
  THEN /\ BagCardinality(addPending) < MaxInFlight
       /\ rejected' = IF Truthy(setRejected) THEN FALSE ELSE rejected
       /\ attemptingTxn' = TRUE
       /\ addPending' = addPending (+) SetToBag({Promise("estimateGas")})
       /\ UNCHANGED <<txHash, showConfirm, txPending,
                      addLiquidityErrorMessage>>
  ELSE UNCHANGED addState

(* onAddLiquidity, the onClick of the main button, which is disabled unless
   isReady *)
OnAddLiquidity ==
  /\ isReady
  /\ IF expertMode
     THEN onAdd
     ELSE /\ showConfirm' = TRUE
          /\ UNCHANGED <<txHash, attemptingTxn, txPending,
                         addLiquidityErrorMessage, rejected, addPending>>
  /\ UNCHANGED <<addInputs, addDisplay, presetVars, swapVars>>

(* onClick of the confirm button in the modal header *)
OnAddConfirm ==
  /\ confirmButtonShown
  /\ onAdd
  /\ UNCHANGED <<addInputs, addDisplay, presetVars, swapVars>>

(* handleDismissConfirmation, the onDismiss of the modal and of its
   contents *)
HandleDismissConfirmation ==
  /\ showConfirm
  /\ showConfirm' = FALSE
  /\ attemptingTxn' = FALSE
  /\ txPending' = FALSE
  /\ addLiquidityErrorMessage' = Str(<<>>)
  /\ txHash' = Str(<<>>)
  /\ UNCHANGED <<rejected, addPending, addInputs, addDisplay, presetVars,
                 swapVars>>

(* estimateGas resolves: the then callback sends the transaction *)
EstimateGasResolves ==
  /\ BagIn(Promise("estimateGas"), addPending)
  /\ addPending' = (addPending (-) SetToBag({Promise("estimateGas")}))
                      (+) SetToBag({Promise("sendTransaction")})
  /\ UNCHANGED <<txHash, showConfirm, attemptingTxn, txPending,
                 addLiquidityErrorMessage, rejected, addInputs, addDisplay,
                 presetVars, swapVars>>

(* The catch callback of the estimateGas chain, for an error with this
   code. *)
estimateGasCatch(code) ==
  /\ rejected' = IF Truthy(setRejected) THEN TRUE ELSE rejected
  /\ attemptingTxn' = FALSE
  /\ addLiquidityErrorMessage' = errorMessageOf(code)
  /\ addPending' = addPending (-) SetToBag({Promise("estimateGas")})
  /\ UNCHANGED <<txHash, showConfirm, txPending, addInputs, addDisplay,
                 presetVars, swapVars>>

(* estimateGas rejects *)
EstimateGasRejects ==
  /\ BagIn(Promise("estimateGas"), addPending)
  /\ \E code \in ErrorCodes : estimateGasCatch(code)

(* sendTransaction resolves with the response: the then callback up to its
   await of response.wait() *)
SendTransactionResolves ==
  /\ BagIn(Promise("sendTransaction"), addPending)
  /\ attemptingTxn' = FALSE
  /\ txPending' = TRUE
  /\ txHash' = TxHash
  /\ addPending' = (addPending (-) SetToBag({Promise("sendTransaction")}))
                      (+) SetToBag({Promise("wait")})
  /\ UNCHANGED <<showConfirm, addLiquidityErrorMessage, rejected, addInputs,
                 addDisplay, presetVars, swapVars>>

(* sendTransaction rejects: the catch callback next to it *)
SendTransactionRejects ==
  \E code \in ErrorCodes :
    /\ BagIn(Promise("sendTransaction"), addPending)
    /\ attemptingTxn' = FALSE
    /\ addLiquidityErrorMessage' = errorMessageOf(code)
    /\ addPending' = addPending (-) SetToBag({Promise("sendTransaction")})
    /\ UNCHANGED <<txHash, showConfirm, txPending, rejected, addInputs,
                   addDisplay, presetVars, swapVars>>

(* response.wait() resolves: the rest of the try block; the parent's
   handleAddLiquidity is not modelled *)
AddWaitResolves ==
  /\ BagIn(Promise("wait"), addPending)
  /\ txPending' = FALSE
  /\ addPending' = addPending (-) SetToBag({Promise("wait")})
  /\ UNCHANGED <<txHash, showConfirm, attemptingTxn,
                 addLiquidityErrorMessage, rejected, addInputs, addDisplay,
                 presetVars, swapVars>>

(* response.wait() rejects: the catch block of the try *)
AddWaitRejects ==
  \E code \in ErrorCodes :
    /\ BagIn(Promise("wait"), addPending)
    /\ txPending' = FALSE
    /\ addLiquidityErrorMessage' = errorMessageOf(code)
    /\ addPending' = addPending (-) SetToBag({Promise("wait")})
    /\ UNCHANGED <<txHash, showConfirm, attemptingTxn, rejected, addInputs,
                   addDisplay, presetVars, swapVars>>

(* useApproveCallback of CURRENCY_A returns another state *)
SetApprovalA ==
  \E a \in ApprovalStates :
    /\ approvalA' = a
    /\ UNCHANGED <<chainId, library, positionManager, deadline, position,
                   depositADisabled, depositBDisabled, errorMessage,
                   approvalB, isNetworkFailed, addState, addDisplay,
                   presetVars, swapVars>>

(* mintInfo.errorMessage is set or cleared *)
SetErrorMessage ==
  \E e \in {Undefined, SomeError} :
    /\ errorMessage' = e
    /\ UNCHANGED <<chainId, library, positionManager, deadline, position,
                   depositADisabled, depositBDisabled, approvalA, approvalB,
                   isNetworkFailed, addState, addDisplay, presetVars,
                   swapVars>>

(* useIsNetworkFailedImmediate *)
SetIsNetworkFailed ==
  \E b \in BOOLEAN :
    /\ isNetworkFailed' = b
    /\ UNCHANGED <<chainId, library, positionManager, deadline, position,
                   depositADisabled, depositBDisabled, errorMessage,
                   approvalA, approvalB, addState, addDisplay, presetVars,
                   swapVars>>

(* The state of the first render, no promise started and the parent's flag
   down. *)
AddStateInit ==
  /\ txHash = Str(<<>>)
  /\ showConfirm = FALSE
  /\ attemptingTxn = FALSE
  /\ txPending = FALSE
  /\ addLiquidityErrorMessage = Null
  /\ rejected = FALSE
  /\ addPending = EmptyBag

(* First render: no wallet, no position, nothing approved. *)
AddFlowInit ==
  /\ chainId = Undefined
  /\ library = Undefined
  /\ positionManager = Undefined
  /\ deadline = Undefined
  /\ position = Undefined
  /\ depositADisabled = FALSE
  /\ depositBDisabled = FALSE
  /\ errorMessage = SomeError
  /\ approvalA = UNKNOWN
  /\ approvalB = UNKNOWN
  /\ isNetworkFailed = FALSE
  /\ AddStateInit

(* A form that is ready to add liquidity: a network and a signer, the
   position manager, two tokens with a position, both deposits approved. *)
AddReady ==
  /\ baseCurrency = Token(1)
  /\ quoteCurrency = Token(2)
  /\ mintInfo = [pricesAtTicks |-> [LOWER |-> Undefined, UPPER |-> Undefined]]
  /\ manuallyInverted = FALSE
  /\ _priceLower = Undefined
  /\ _priceUpper = Undefined
  /\ inverter = useInverter(inverterArgs(Undefined, Undefined, Token(2),
                                         Token(1), FALSE))
  /\ isSorted = isSortedOf(Token(1), Token(2))
  /\ inverted = invertedOf(isSorted, Token(1), Token(2), inverter.base)
  /\ currencyQuote = (IF Truthy(inverted) THEN Token(1) ELSE Token(2))
  /\ currencyBase = (IF Truthy(inverted) THEN Token(2) ELSE Token(1))
  /\ chainId = [k |-> "chain"]
  /\ library = [k |-> "provider"]
  /\ positionManager = [k |-> "contract"]
  /\ deadline = [k |-> "bignumber"]
  /\ position = [k |-> "position"]
  /\ depositADisabled = FALSE
  /\ depositBDisabled = FALSE
  /\ errorMessage = Undefined
  /\ approvalA = APPROVED
  /\ approvalB = APPROVED
  /\ isNetworkFailed = FALSE
  /\ AddStateInit

-----------------------------------------------------------------------------
(* Specifications *)

(* The PresetRanges component under every change of its props. *)
Init == PresetInit /\ AddInit /\ AddFlowInit /\ SwapInit

Next ==
  \/ SetPriceLower
  \/ SetPriceUpper
  \/ SetPrice
  \/ SetIsStablecoinPair
  \/ SetInvalidRange

Spec == Init /\ [][Next]_vars

(* PresetRanges at rest: an ordinary pair with a valid range. *)
PresetIdle == PresetInit /\ ~isStablecoinPair /\ ~invalidRange

(* The AddLiquidityButton component under every change of its currencies and
   ticks and every use of the rate toggle. *)
InitAdd == PresetIdle /\ AddInit /\ AddFlowInit /\ SwapInit

NextAdd ==
  \/ SetBaseCurrency
  \/ SetQuoteCurrency
  \/ SetMintInfo
  \/ HandleRateToggle

SpecAdd == InitAdd /\ [][NextAdd]_vars

(* The submission of AddLiquidityButton from a form that is ready to add
   liquidity: clicks on the main button and in the modal and the settling of
   the promises in every order, while the wallet, the expert mode, an
   approval, the form's error and the network state change. *)
InitAddFlow == PresetIdle /\ AddReady /\ SwapInit

NextAddFlow ==
  \/ OnAddLiquidity
  \/ OnAddConfirm
  \/ HandleDismissConfirmation
  \/ EstimateGasResolves
  \/ EstimateGasRejects
  \/ SendTransactionResolves
  \/ SendTransactionRejects
  \/ AddWaitResolves
  \/ AddWaitRejects
  \/ SetApprovalA
  \/ SetErrorMessage
  \/ SetIsNetworkFailed
  \/ SetIsExpertMode
  \/ SetAccount

SpecAddFlow == InitAddFlow /\ [][NextAddFlow]_vars

(* The swap button of the Swap component under every change of the values
   the hooks return. *)
InitSwapButton == PresetIdle /\ AddInit /\ AddFlowInit /\ SwapInit

NextSwapButton ==
  \/ SetAccount
  \/ SetIsSupportedNetwork
  \/ SetWrapCallback
  \/ SetVersionTrade
  \/ SetUserHasSpecifiedInputOutput
  \/ SetSwapInputError
  \/ SetApproval
  \/ HandleCurrencySelect
  \/ SetPriceImpactSeverity
  \/ SetIsExpertMode
  \/ SetSwapCallback

SpecSwapButton == InitSwapButton /\ [][NextSwapButton]_vars

(* The confirmation flow of the Swap component, from a form that is ready
   to swap: clicks, the modal's callbacks and the settling of the promises
   in every order, while the trade, the expert mode, the swap callback and
   the typed amount change. *)
InitSwap == PresetIdle /\ AddInit /\ AddFlowInit /\ SwapReady

NextSwap ==
  \/ ClickSwapButton
  \/ HandleSwap
  \/ HandleAcceptChanges
  \/ HandleConfirmDismiss
  \/ SwapCallbackResolves
  \/ SwapCallbackRejects
  \/ WaitResolves
  \/ WaitRejects
  \/ HandleTypeInput
  \/ SetVersionTrade
  \/ SetIsExpertMode
  \/ SetSwapCallback

SpecSwap == InitSwap /\ [][NextSwap]_vars

-----------------------------------------------------------------------------
(* Properties of the risk score *)

(* The string props of the worked example: 0.9, 1.2 and 1 *)
ExampleProps ==
  /\ priceLower = Str(<<"0", ".", "9">>)
  /\ priceUpper = Str(<<"1", ".", "2">>)
  /\ price = Str(<<"1">>)

(* |a - b| <= tol for finite numbers *)
Near(a, b, tol) == IsFin(a) /\ AbsInt(a.v - b.v) <= tol.v

(* a <= rp < b *)
InBand(rp, a, b) == FLe(a, rp) /\ FLt(rp, b)

(* C1: whenever a score is computed, it is the one the fixed bands give for
   the rangePercent of that computation: below 7.5 gives 5, [7.5,15) gives
   (15 - rangePercent)/7.5 + 4, [15,30) gives (30 - rangePercent)/15 + 3,
   [30,60) gives (60 - rangePercent)/30 + 2, [60,120) gives
   (120 - rangePercent)/60 + 1, and 120 or more gives 1; for the bounds 0.9
   and 1.2 at price 1 the rangePercent is 27.78, in [15,30), and the score
   is about 3.148. *)
C1_ScoreByBands ==
  rangePercent /= Undefined =>
    /\ FLt(rangePercent, Lit(7, 500)) => risk = IntLit(5)
    /\ InBand(rangePercent, Lit(7, 500), IntLit(15)) =>
         risk = FAdd(FDiv(FSub(IntLit(15), rangePercent), Lit(7, 500)), IntLit(4))
    /\ InBand(rangePercent, IntLit(15), IntLit(30)) =>
         risk = FAdd(FDiv(FSub(IntLit(30), rangePercent), IntLit(15)), IntLit(3))
    /\ InBand(rangePercent, IntLit(30), IntLit(60)) =>
         risk = FAdd(FDiv(FSub(IntLit(60), rangePercent), IntLit(30)), IntLit(2))
    /\ InBand(rangePercent, IntLit(60), IntLit(120)) =>
         risk = FAdd(FDiv(FSub(IntLit(120), rangePercent), IntLit(60)), IntLit(1))
    /\ FLe(IntLit(120), rangePercent) => risk = IntLit(1)
    /\ ExampleProps =>
         /\ Near(rangePercent, Lit(27, 780), Lit(0, 10))
         /\ InBand(rangePercent, IntLit(15), IntLit(30))
         /\ Near(risk, Lit(3, 148), Lit(0, 1))

(* The worked example has been computed and landed in the [15,30) band. *)
C1_Witness ==
  /\ ExampleProps
  /\ rangePercent /= Undefined
  /\ InBand(rangePercent, IntLit(15), IntLit(30))
  /\ Near(risk, Lit(3, 148), Lit(0, 1))

(* upperPercent and lowerPercent as the specification writes them *)
SpecUpperPercent ==
  FSub(IntLit(100), FMul(FDiv(ToNumber(price), ToNumber(priceUpper)), IntLit(100)))

SpecLowerPercent ==
  FAbs(FSub(IntLit(100),
            FMul(FDiv(ToNumber(price), ToNumber(priceLower)), IntLit(100))))

(* C2 as stated: rangePercent is upperPercent - lowerPercent when priceLower >
   currentPrice and upperPercent + lowerPercent in every other case, for all
   numeric inputs. *)
C2_AsStated ==
  rangePercent /= Undefined =>
    rangePercent =
      IF FGt(ToNumber(priceLower), ToNumber(price))
      THEN FSub(SpecUpperPercent, SpecLowerPercent)
      ELSE FAdd(SpecUpperPercent, SpecLowerPercent)

(* C2 amended: rangePercent is upperPercent - lowerPercent when priceLower >
   currentPrice and priceUpper > 0, and upperPercent + lowerPercent in every
   other case, with upperPercent = 100 - (currentPrice / priceUpper) * 100 and
   lowerPercent = |100 - (currentPrice / priceLower) * 100|. *)
C2_RangePercent ==
  rangePercent /= Undefined =>
    rangePercent =
      IF FGt(ToNumber(priceLower), ToNumber(price))
           /\ FGt(ToNumber(priceUpper), IntLit(0))
      THEN FSub(SpecUpperPercent, SpecLowerPercent)
      ELSE FAdd(SpecUpperPercent, SpecLowerPercent)

(* A lower bound above the current price with a positive upper bound: the
   subtracting branch has run, and the two percentages differ from zero. *)
C2_Witness ==
  /\ rangePercent /= Undefined
  /\ FGt(ToNumber(price), IntLit(0))
  /\ FGt(ToNumber(priceLower), ToNumber(price))
  /\ FGt(ToNumber(priceUpper), IntLit(0))
  /\ FGt(SpecLowerPercent, IntLit(0))
  /\ FGt(SpecUpperPercent, IntLit(0))

(* C3: every score that is computed lies in the closed interval [1,5],
   whatever the rangePercent is (negative, zero, positive, infinite, NaN). *)
C3_ScoreInRange ==
  risk /= Undefined => FLe(IntLit(1), risk) /\ FLe(risk, IntLit(5))

(* A score computed from a negative rangePercent. *)
C3_Witness ==
  /\ rangePercent /= Undefined
  /\ IsFin(rangePercent)
  /\ FLt(rangePercent, IntLit(0))
  /\ risk = IntLit(5)

(* The band boundaries, and the formula of the band that ends at each. *)
Boundary == <<Lit(7, 500), IntLit(15), IntLit(30), IntLit(60), IntLit(120)>>

EndingBand(i, rp) ==
  CASE i = 1 -> IntLit(5)
    [] i = 2 -> FAdd(FDiv(FSub(IntLit(15), rp), Lit(7, 500)), IntLit(4))
    [] i = 3 -> FAdd(FDiv(FSub(IntLit(30), rp), IntLit(15)), IntLit(3))
    [] i = 4 -> FAdd(FDiv(FSub(IntLit(60), rp), IntLit(30)), IntLit(2))
    [] i = 5 -> FAdd(FDiv(FSub(IntLit(120), rp), IntLit(60)), IntLit(1))

(* C4: at each boundary 7.5, 15, 30, 60, 120 the score computed there (by the
   band that starts at the boundary) equals the value the formula of the band
   ending there takes at that point: 5, 4, 3, 2 and 1. *)
C4_ContinuousAtBoundaries ==
  rangePercent /= Undefined =>
    \A i \in 1..5 :
      rangePercent = Boundary[i] =>
        /\ risk = EndingBand(i, rangePercent)
        /\ risk = IntLit(6 - i)

(* A score computed exactly at the boundary 30. *)
C4_Witness == rangePercent = IntLit(30) /\ risk = IntLit(3)

-----------------------------------------------------------------------------
(* Properties of the presets *)

(* The type, bounds and tiers of a preset, without its title. *)
PresetCore(r) == <<r.type, r.min, r.max, r.risk, r.profit>>

(* C5: for a pair that is not a stablecoin pair the presets are exactly Full,
   Safe, Normal, Risk in this order, with bounds (0, +infinity), (0.8, 1.4),
   (0.9, 1.2), (0.95, 1.1) and tiers (VeryLow, VeryLow), (Low, Low),
   (Medium, Medium), (High, High), in every state (on every evaluation). *)
C5_FourPresets ==
  ~isStablecoinPair =>
    /\ Len(ranges) = 4
    /\ PresetCore(ranges[1]) = <<"FULL", Fin(0), PosInf, VERY_LOW, VERY_LOW>>
    /\ PresetCore(ranges[2]) = <<"SAFE", Lit(0, 800), Lit(1, 400), LOW, LOW>>
    /\ PresetCore(ranges[3]) = <<"NORMAL", Lit(0, 900), Lit(1, 200), MEDIUM, MEDIUM>>
    /\ PresetCore(ranges[4]) = <<"RISK", Lit(0, 950), Lit(1, 100), HIGH, HIGH>>

(* The four presets shown for a non-stablecoin pair that has a score. *)
C5_Witness == ~isStablecoinPair /\ Len(ranges) = 4 /\ risk /= Undefined

(* C6: for a stablecoin pair the presets are exactly one, the Stable preset
   with bounds (0.984, 1.016), risk VeryLow and profit High; none of Full,
   Safe, Normal, Risk is among them. *)
C6_StablePreset ==
  isStablecoinPair =>
    /\ Len(ranges) = 1
    /\ PresetCore(ranges[1]) = <<"STABLE", Lit(0, 984), Lit(1, 16), VERY_LOW, HIGH>>
    /\ \A i \in 1..Len(ranges) :
         ranges[i].type \notin {"FULL", "SAFE", "NORMAL", "RISK"}

(* The single preset shown for a stablecoin pair whose bounds are set. *)
C6_Witness ==
  /\ isStablecoinPair
  /\ Len(ranges) = 1
  /\ ~Not(priceLower)
  /\ ~Not(priceUpper)

-----------------------------------------------------------------------------
(* Properties of the five-segment fill *)

(* A prop is absent: undefined or the empty string. *)
Absent(x) == x = Undefined \/ x = Str(<<>>)

IsNumber(x) == x.k \in {"fin", "inf", "nan"}

(* C7: if priceLower, priceUpper or the price is absent there is no score and
   no fill at all; if all three are present there is a score and a fill of
   five elements. *)
C7_AbsentPropagates ==
  IF Absent(priceLower) \/ Absent(priceUpper) \/ Absent(price)
  THEN risk = Undefined /\ _risk = Undefined
  ELSE IsNumber(risk) /\ _risk.k = "arr" /\ Len(_risk.a) = 5

(* Both bounds present, the price absent, and nothing computed. *)
C7_Witness ==
  /\ ~Absent(priceLower)
  /\ ~Absent(priceUpper)
  /\ Absent(price)
  /\ risk = Undefined
  /\ _risk = Undefined

(* The fill the specification gives segment i (0..4) for a finite score:
   100 below floor(score), the fractional part times 100 at floor(score),
   0 above. *)
SpecFill(score, i) ==
  LET whole == score.v \div Scale
      frac  == score.v % Scale
  IN  IF i < whole THEN IntLit(100)
      ELSE IF i = whole THEN Fin(frac * 100)
      ELSE IntLit(0)

(* C8: for every score and every segment index i in 0..4 the fill is 100 when
   i < floor(score), the fractional part of the score times 100 when
   i = floor(score), and 0 otherwise; the score 3.4 gives
   [100, 100, 100, 40, 0]. *)
C8_FillBySegments ==
  risk /= Undefined =>
    /\ \A i \in 0..4 : _risk.a[i + 1] = SpecFill(risk, i)
    /\ risk = Lit(3, 400) =>
         _risk.a = <<IntLit(100), IntLit(100), IntLit(100), IntLit(40), IntLit(0)>>

(* The score 3.4 and its fill. *)
C8_Witness ==
  /\ risk = Lit(3, 400)
  /\ _risk = Arr(<<IntLit(100), IntLit(100), IntLit(100), IntLit(40), IntLit(0)>>)

-----------------------------------------------------------------------------
(* Monotonicity of the risk score *)

(* A prop holds a positive number. *)
Positive(x) == x /= Undefined /\ FGt(ToNumber(x), IntLit(0))

(* C9: with the same positive price and positive bounds before and after, a
   step that lowers priceLower or raises priceUpper (a range at least as wide)
   never ends with a higher score than it started with. *)
C9_WiderNeverRiskier ==
  [][ ( /\ price' = price
        /\ Positive(price)
        /\ Positive(priceLower) /\ Positive(priceLower')
        /\ Positive(priceUpper) /\ Positive(priceUpper')
        /\ FLe(ToNumber(priceLower'), ToNumber(priceLower))
        /\ FLe(ToNumber(priceUpper), ToNumber(priceUpper')) )
      => FLe(risk', risk) ]_vars

(* A score strictly between the tiers for a lower bound above the price, from
   where lowering priceLower moves it across the price. *)
C9_Witness ==
  /\ Positive(price) /\ Positive(priceLower) /\ Positive(priceUpper)
  /\ FGt(ToNumber(priceLower), ToNumber(price))
  /\ FLt(ToNumber(priceLower), ToNumber(priceUpper))
  /\ FLt(IntLit(1), risk) /\ FLt(risk, IntLit(5))

(* The band of a rangePercent, 1..6 from the narrowest; 0 for NaN. *)
BandOf(rp) ==
  IF IsNaN(rp) THEN 0
  ELSE IF FLt(rp, Lit(7, 500)) THEN 1
  ELSE IF FLt(rp, IntLit(15)) THEN 2
  ELSE IF FLt(rp, IntLit(30)) THEN 3
  ELSE IF FLt(rp, IntLit(60)) THEN 4
  ELSE IF FLt(rp, IntLit(120)) THEN 5
  ELSE 6

(* C10: when the rangePercent before and after a step lie in the same band
   and the one after is not smaller, the score after is not higher. *)
C10_MonotoneInBand ==
  [][ ( /\ rangePercent /= Undefined
        /\ rangePercent' /= Undefined
        /\ BandOf(rangePercent) /= 0
        /\ BandOf(rangePercent) = BandOf(rangePercent')
        /\ FLe(rangePercent, rangePercent') )
      => FLe(risk', risk) ]_vars

(* A score strictly inside the [15,30) band, not at its boundary. *)
C10_Witness ==
  /\ rangePercent /= Undefined
  /\ BandOf(rangePercent) = 3
  /\ FGt(rangePercent, IntLit(15))
  /\ FLt(IntLit(3), risk) /\ FLt(risk, IntLit(4))

-----------------------------------------------------------------------------
(* The rendered indicator, degenerate bounds, memoization, preset bounds *)

(* C11: the risk / profit indicator is never displayed when isStablecoinPair
   is true, whatever the bounds, the price and invalidRange are. *)
C11_NoIndicatorForStable == isStablecoinPair => ~riskInfoShown

(* A stablecoin pair with a computed fill and a valid range: only the
   stablecoin flag keeps the indicator out of the tree. *)
C11_Witness ==
  /\ isStablecoinPair
  /\ _risk /= Undefined
  /\ ~invalidRange
  /\ ~riskInfoShown

(* A present prop whose number is zero. *)
IsZero(x) == x /= Undefined /\ StrictEq(ToNumber(x), IntLit(0))

(* A fill of five finite values, each within [0, 100]. *)
FillWithinBounds(fill) ==
  /\ fill.k = "arr"
  /\ Len(fill.a) = 5
  /\ \A i \in 1..5 :
       /\ IsFin(fill.a[i])
       /\ FLe(IntLit(0), fill.a[i])
       /\ FLe(fill.a[i], IntLit(100))

(* C12: with the three inputs present and priceUpper zero, priceLower zero or
   both, the risk memo has either no score or a score within [1, 5]; a
   rangePercent that a division by zero made infinite or NaN is mapped to
   one of the end scores 1 and 5; and the fill is five values, each within
   [0, 100]. *)
C12_ZeroBoundAbsorbed ==
  ( /\ ~Absent(priceLower) /\ ~Absent(priceUpper) /\ ~Absent(price)
    /\ (IsZero(priceLower) \/ IsZero(priceUpper)) )
  => \/ risk = Undefined /\ _risk = Undefined
     \/ /\ FLe(IntLit(1), risk) /\ FLe(risk, IntLit(5))
        /\ ~IsFin(rangePercent) => risk \in {IntLit(1), IntLit(5)}
        /\ FillWithinBounds(_risk)

(* priceUpper is "0" with a positive price: the division gives an infinite
   rangePercent and the score is the end score 5. *)
C12_Witness ==
  /\ IsZero(priceUpper)
  /\ Positive(price)
  /\ ~Absent(priceLower)
  /\ rangePercent = NegInf
  /\ risk = IntLit(5)
  /\ FillWithinBounds(_risk)

(* C16: the risk held by the component always equals computeRiskScore of the
   current priceLower, priceUpper and price: the memoization is not
   observable. *)
C16_MemoIsTransparent ==
  /\ risk = computeRiskScore(priceLower, priceUpper, price)
  /\ _risk = scoreToFiveSegmentFill(risk)

(* The bounds 0.9 and 1.3 around the price 1, reached by renders that
   changed one prop at a time, with the score of exactly these three. *)
C16_Witness ==
  /\ priceLower = Str(<<"0", ".", "9">>)
  /\ priceUpper = Str(<<"1", ".", "3">>)
  /\ price = Str(<<"1">>)
  /\ risk /= Undefined
  /\ risk = computeRiskScore(priceLower, priceUpper, price)

(* C17: every preset has min < max, and the Full preset has min = 0 and
   max = +infinity. *)
C17_PresetBounds ==
  \A i \in 1..Len(ranges) :
    /\ FLt(ranges[i].min, ranges[i].max)
    /\ ranges[i].type = "FULL" =>
         ranges[i].min = IntLit(0) /\ ranges[i].max = PosInf

(* The four presets of an ordinary pair, the first of them Full with an
   infinite upper bound and the last with its bounds in order. *)
C17_Witness ==
  /\ Len(ranges) = 4
  /\ ranges[1].type = "FULL"
  /\ ranges[1].max = PosInf
  /\ FLt(ranges[4].min, ranges[4].max)

-----------------------------------------------------------------------------
(* The displayed price range of AddLiquidityButton *)

PositivePrice(p) ==
  p /= Undefined /\ p.numerator > 0 /\ p.denominator > 0

(* 1 / p *)
Reciprocal(p) == Price(p.denominator, p.numerator)

(* a < b for prices with positive denominators *)
PriceLt(a, b) == a.numerator * b.denominator < b.numerator * a.denominator

(* The pair of bounds on display. *)
Displayed == <<inverter.priceLower, inverter.priceUpper>>

(* invertPrice with inversion on, applied to a pair of bounds *)
invertPrice(pair) ==
  LET r == useInverter([priceLower |-> pair[1], priceUpper |-> pair[2],
                        quote |-> Undefined, base |-> Undefined,
                        invert |-> TRUE])
  IN  <<r.priceLower, r.priceUpper>>

(* C13: for positive bounds, applying invertPrice twice returns the original
   pair, (0.8, 1.2) inverted once is (0.8333..., 1.25), and a use of the
   rate toggle is one application of invertPrice to the displayed bounds
   that the next use undoes. *)
C13_InvertTwiceRestores ==
  [][ ( /\ PositivePrice(_priceLower) /\ PositivePrice(_priceUpper)
        /\ _priceLower' = _priceLower /\ _priceUpper' = _priceUpper
        /\ manuallyInverted' /= manuallyInverted )
      => /\ invertPrice(invertPrice(Displayed)) = Displayed
         /\ Displayed' = invertPrice(Displayed)
         /\ invertPrice(Displayed') = Displayed
         /\ Displayed = <<Price(4, 5), Price(6, 5)>> =>
              Displayed' = <<Price(5, 6), Price(5, 4)>> ]_vars

(* The bounds 0.8 and 1.2 after one use of the toggle: 5/6 and 5/4. *)
C13_Witness ==
  /\ manuallyInverted
  /\ _priceLower = Price(4, 5)
  /\ _priceUpper = Price(6, 5)
  /\ Displayed = <<Price(5, 6), Price(5, 4)>>

(* C14: with inversion on, the displayed lower bound is 1 / oldUpper and the
   displayed upper bound is 1 / oldLower, so positive bounds in order are
   displayed in order; with inversion off both bounds are displayed
   unchanged. *)
C14_SwapAndReciprocate ==
  (_priceLower /= Undefined /\ _priceUpper /= Undefined) =>
    IF manuallyInverted
    THEN /\ inverter.priceLower = Reciprocal(_priceUpper)
         /\ inverter.priceUpper = Reciprocal(_priceLower)
         /\ ( /\ PositivePrice(_priceLower) /\ PositivePrice(_priceUpper)
              /\ PriceLt(_priceLower, _priceUpper) )
            => PriceLt(inverter.priceLower, inverter.priceUpper)
    ELSE /\ inverter.priceLower = _priceLower
         /\ inverter.priceUpper = _priceUpper

(* The bounds 4/5 < 3/2 displayed inverted as 2/3 < 5/4. *)
C14_Witness ==
  /\ manuallyInverted
  /\ _priceLower = Price(4, 5)
  /\ _priceUpper = Price(3, 2)
  /\ inverter.priceLower = Price(2, 3)
  /\ inverter.priceUpper = Price(5, 4)
  /\ PriceLt(inverter.priceLower, inverter.priceUpper)

(* C15: with both currencies set (their wrapped tokens differ), the inverted
   flag is true exactly when (base does not sort before quote) differs from
   manuallyInverted, and it decides which currency is labelled quote and
   which base. *)
C15_InvertedIsOrderXorToggle ==
  (baseCurrency /= Undefined /\ quoteCurrency /= Undefined) =>
    LET unsorted == ~sortsBefore(wrapped(baseCurrency), wrapped(quoteCurrency))
        expected == unsorted /= manuallyInverted
    IN  /\ inverted = Bool(expected)
        /\ currencyQuote = IF expected THEN baseCurrency ELSE quoteCurrency
        /\ currencyBase = IF expected THEN quoteCurrency ELSE baseCurrency

(* A base that sorts after the quote with the toggle on: both inversions
   cancel. *)
C15_Witness ==
  /\ baseCurrency = Token(2)
  /\ quoteCurrency = Native
  /\ manuallyInverted
  /\ inverted = Bool(FALSE)
  /\ currencyBase = baseCurrency

-----------------------------------------------------------------------------
(* The swap button and the confirmation modal of Swap *)

(* A wallet is connected on a supported network and the form is not in
   wrap / unwrap mode. *)
SwapFormActive == Truthy(account) /\ isSupportedNetwork /\ ~showWrap

(* C18: with a wallet connected on a supported network, outside wrap /
   unwrap mode, a price impact severity above 3 and expert mode off, the
   swap button is disabled and cannot start onSwap, whatever the approval
   state, the route and the input error are. *)
C18_HighImpactDisables ==
  (SwapFormActive /\ priceImpactSeverity > 3 /\ ~isExpertMode) =>
    swapButtonDisabled /\ ~onSwapFromButton

(* A form that only the price impact disables: a route, no input error, no
   callback error, the token approved without an approval step. *)
C18_Witness ==
  /\ SwapFormActive
  /\ priceImpactSeverity = 4
  /\ ~isExpertMode
  /\ ~noRoute
  /\ isValid
  /\ approval = APPROVED
  /\ ~approvalSubmitted
  /\ ~Truthy(swapCallbackError)
  /\ swapButtonDisabled

(* C19: with a wallet connected on a supported network, outside wrap /
   unwrap mode, the swap button is disabled and cannot start onSwap in
   every state where the approval is NOT_APPROVED or PENDING. *)
C19_UnapprovedDisables ==
  (SwapFormActive /\ approval \in {NOT_APPROVED, PENDING}) =>
    swapButtonDisabled /\ ~onSwapFromButton

(* A form that only the pending approval disables: a route, no input
   error, no callback error, a low price impact. *)
C19_Witness ==
  /\ SwapFormActive
  /\ approval = PENDING
  /\ approvalSubmitted
  /\ showApproveFlow
  /\ ~noRoute
  /\ isValid
  /\ priceImpactSeverity = 0
  /\ ~Truthy(swapCallbackError)
  /\ swapButtonDisabled

(* C20: once handleConfirmDismiss has set showConfirm to false, showConfirm
   stays false until onSwap is invoked again, however the dismissal
   interleaves with the settling of the swapCallback promise and of
   response.wait() of an earlier handleSwap. *)
C20_DismissedStaysClosed == dismissed => ~swapState.showConfirm

-----------------------------------------------------------------------------
(* The confirmation state of Swap *)

(* C21: in every state of the confirmation flow, an attempt in progress
   (attemptingTxn true) has no pending transaction (txPending is not true),
   no transaction hash and no error message. *)
C21_AttemptIsClean ==
  swapState.attemptingTxn =>
    /\ swapState.txPending /= Bool(TRUE)
    /\ swapState.txHash = Undefined
    /\ swapState.swapErrorMessage = Undefined

(* A second attempt started from the modal while the first swapCallback
   promise is unsettled. *)
C21_Witness ==
  /\ swapState.attemptingTxn
  /\ swapState.showConfirm
  /\ BagCardinality(pending) = 2

(* A step that closes the modal without starting or settling a promise:
   only handleConfirmDismiss takes it. *)
ClosingStep ==
  /\ swapState.showConfirm
  /\ ~swapState'.showConfirm
  /\ pending' = pending

(* C24: every step of handleConfirmDismiss closes the modal, clears the typed
   amount exactly when there is a transaction hash and leaves it as it is
   otherwise, and keeps tradeToConfirm, attemptingTxn, swapErrorMessage and
   txHash. *)
C24_DismissFrame ==
  [][ (HandleConfirmDismiss \/ ClosingStep) =>
        /\ ~swapState'.showConfirm
        /\ typedValue' = IF swapState.txHash /= Undefined
                          THEN Str(<<>>) ELSE typedValue
        /\ swapState'.tradeToConfirm = swapState.tradeToConfirm
        /\ swapState'.attemptingTxn = swapState.attemptingTxn
        /\ swapState'.swapErrorMessage = swapState.swapErrorMessage
        /\ swapState'.txHash = swapState.txHash ]_vars

(* The modal dismissed with the transaction hash of a settled swap: the
   typed amount is cleared, the hash and the trade are still there. *)
C24_Witness ==
  /\ dismissed
  /\ ~swapState.showConfirm
  /\ swapState.txHash = TxHash
  /\ swapState.tradeToConfirm /= Undefined
  /\ typedValue = Str(<<>>)
  /\ pending = EmptyBag

-----------------------------------------------------------------------------
(* rangePercent in closed form, and prices in another unit *)

(* 100 * price * (1 / priceLower - 1 / priceUpper), multiplied out so that
   each term is rounded once: 100 * price / priceLower - 100 * price /
   priceUpper *)
ClosedRangePercent ==
  FSub(FDiv(FMul(IntLit(100), ToNumber(price)), ToNumber(priceLower)),
       FDiv(FMul(IntLit(100), ToNumber(price)), ToNumber(priceUpper)))

(* The rangePercent of the rule without the guard on priceUpper. *)
UnguardedRangePercent ==
  IF FGt(ToNumber(priceLower), ToNumber(price))
  THEN FSub(SpecUpperPercent, SpecLowerPercent)
  ELSE FAdd(SpecUpperPercent, SpecLowerPercent)

(* Factors by which the three prices are scaled, as fractions: 2, 3, 10,
   1/2 and 5/2. *)
ScaleFactors == {<<2, 1>>, <<3, 1>>, <<10, 1>>, <<1, 2>>, <<5, 2>>}

(* The prop that holds the number of x multiplied by factor. *)
Scaled(x, factor) ==
  toString(FDiv(FMul(ToNumber(x), IntLit(factor[1])), IntLit(factor[2])))

(* C25: for positive priceLower, priceUpper and price, the rangePercent of
   either branch is 100 * price * (1 / priceLower - 1 / priceUpper) up to the
   rounding of the divisions, the score is the one of the rule without the
   guard on priceUpper, and the score of the three prices scaled by one
   factor is the score of the prices themselves. *)
C25_BranchesAgree ==
  (Positive(priceLower) /\ Positive(priceUpper) /\ Positive(price)) =>
    /\ Near(rangePercent, ClosedRangePercent, Lit(0, 20))
    /\ risk = riskBands(UnguardedRangePercent)
    /\ \A factor \in ScaleFactors :
         computeRiskScore(Scaled(priceLower, factor),
                          Scaled(priceUpper, factor),
                          Scaled(price, factor)) = risk

(* A price strictly inside a positive range, where the branch that adds is
   taken and lowerPercent is the absolute value of a negative difference,
   with a score strictly between the tiers. *)
C25_Witness ==
  /\ Positive(priceLower) /\ Positive(priceUpper) /\ Positive(price)
  /\ FLt(ToNumber(priceLower), ToNumber(price))
  /\ FLt(ToNumber(price), ToNumber(priceUpper))
  /\ FLt(IntLit(1), risk) /\ FLt(risk, IntLit(5))
  /\ Near(rangePercent, ClosedRangePercent, Lit(0, 20))

-----------------------------------------------------------------------------
(* The submission of AddLiquidityButton *)

(* The runs of onAdd that have started and have neither failed nor had
   their transaction hash recorded. *)
RunsInFlight ==
  CopiesIn(Promise("estimateGas"), addPending)
    + CopiesIn(Promise("sendTransaction"), addPending)

(* C22: at most one run of onAdd is between its start and its failure or
   the recording of its transaction hash, in expert mode as well as through
   the confirmation modal. *)
C22_OneSubmissionInFlight == RunsInFlight <= 1

(* C23: when estimateGas fails, the rejected flag changes only for an error
   other than the user's rejection (code 4001), attemptingTxn is false
   afterwards and the message is 'txRejected' for code 4001 and 'errorInTx'
   otherwise. *)
C23_RejectedOnlyForOtherErrors ==
  [][ \A code \in ErrorCodes :
        (EstimateGasRejects /\ estimateGasCatch(code)) =>
          /\ code = UserRejected => rejected' = rejected
          /\ ~attemptingTxn'
          /\ addLiquidityErrorMessage' =
               (IF code = UserRejected THEN Str(t("txRejected"))
                                       ELSE Str(t("errorInTx"))) ]_vars

====
